---- MODULE Spec2Model ----
(***************************************************************************)
(* Bali Document Notation: the generated parser (BaliLanguageParser), the  *)
(* fail-fast error strategy and the parse-tree-to-AST visitor.             *)
(*                                                                         *)
(* A source is a sequence of lexemes (whitespace already skipped).  The    *)
(* parser is modelled as the ANTLR runtime drives the generated rule       *)
(* functions: a token stream that fetches lazily from the lexer, a stack   *)
(* of rule contexts under construction, and one operator per grammar rule. *)
(* The modelled grammar subset is: document, component, structure,         *)
(* parameters, composite (range, array and table), association, block,     *)
(* procedure, statement (with evaluate, if and return clauses),            *)
(* handleClause, finishClause, the whole expression rule, variable,        *)
(* indices, invocation, name, symbol and number (real and imaginary).      *)
(*                                                                         *)
(* Every call of a method of the parser (this.match, this.expression, ...) *)
(* goes through invoke, which names the method called.                     *)
(*                                                                         *)
(* The visitor reads a context through accessors (ctx.expression(),        *)
(* ctx.block(), ctx.mainClause(), ...).  An accessor the generated         *)
(* contexts define is modelled as getTypedRuleContext(s); an accessor      *)
(* whose name is not a rule of the grammar is modelled as the child        *)
(* context that has the role the name gives.                               *)
(***************************************************************************)
EXTENDS Integers, Sequences, FiniteSets, TLC

\* ------------------------------------------------------------------------
\* Lexemes and token types
\* ------------------------------------------------------------------------

Identifiers == {"a", "b", "c", "d", "f", "m"}

Floats == {"1", "2", "3", "4", "5"}

Symbols == {"$x", "$y"}

\* a character that no lexer rule matches
Unmatched == {"&"}

InversionOperators == {"-", "/", "*"}

ArithmeticOperators == {"-", "/", "*", "//", "+"}

ComparisonOperators == {"<", "=", ">", "is", "matches"}

LogicalOperators == {"and", "sans", "xor", "or"}

Constants == {"e", "pi", "phi"}

\* blocks of text: a quote, a newline, a line with the letter a that is
\* indented by 0, 2, 4 or 8 spaces, a newline, 0, 4 or 8 spaces and a quote
TextBlocks ==
    {"\"\na\n\"", "\"\n    a\n    \"", "\"\n        a\n        \"", "\"\n  a\n    \""}

\* binary strings of two lines
Binaries == {"'\n    AB\n    '"}

TokenType(text) ==
    IF text \in Identifiers THEN "IDENTIFIER"
    ELSE IF text \in Floats THEN "FLOAT"
    ELSE IF text \in Constants THEN "CONSTANT"
    ELSE IF text \in Symbols THEN "SYMBOL"
    ELSE IF text = "\n" THEN "NEWLINE"
    ELSE IF text \in TextBlocks THEN "TEXT_BLOCK"
    ELSE IF text \in Binaries THEN "BINARY"
    ELSE text

\* the tokens that can start an element, and those that can start an
\* expression (the case labels of the generated LA(1) switches)
ElementStart == {"FLOAT", "SYMBOL", "CONSTANT", "(", "-", "BINARY", "TEXT_BLOCK"}

RealStart == {"FLOAT", "CONSTANT", "-"}

ExpressionStart ==
    ElementStart \cup {"[", "{", "@", "|", "not", "IDENTIFIER"}
                 \cup InversionOperators

StatementStart == ExpressionStart \cup {"if", "return"}

\* ------------------------------------------------------------------------
\* Parse tree nodes (rule contexts and terminal nodes)
\* ------------------------------------------------------------------------

RuleContext(rule, alt) ==
    [rule |-> rule, alt |-> alt, op |-> "", children |-> <<>>,
     token |-> 0, exception |-> FALSE]

TerminalNode(type, text, tokenIndex) ==
    [rule |-> "TERMINAL", alt |-> type, op |-> text, children |-> <<>>,
     token |-> tokenIndex, exception |-> FALSE]

NullContext == RuleContext("null", "null")

\* ------------------------------------------------------------------------
\* The state of the module and of a call of one of its functions
\* ------------------------------------------------------------------------

VARIABLES
    source,     \* the tokens of the source string that is parsed
    debug,      \* the debug argument of the call
    entry,      \* the entry point that was called, "none" before the call
    outcome,    \* "none", "returned" or "thrown"
    converted,  \* whether the call reached convertParseTree
    result,     \* the tree the call returned
    parser,     \* the parser of the call when the call ended
    transformed, \* whether the parse tree was handed to the transformer
    object,     \* what generateJavaScriptObject returned or threw
    decisionsToDFA, \* the DFA states that the predictions of all parsers share
    queue,      \* a Queue: its capacity, its array and its complexity
    called,     \* the last method called on the queue and how the call ended
    history,    \* how many items were added to the queue and which ones left it
    asked,      \* the last containsAny or containsAll call on the queue
    version,    \* a Version, the arrays it and its client refer to, the last call
    lexer       \* a lexer: its input, its position in it and the tokens it made

\* the variables of the parser and of the transformer
parserVars ==
    <<source, debug, entry, outcome, converted, result, parser, transformed, object,
      decisionsToDFA>>

\* the variables of a queue, of a version and of their clients
queueVars == <<queue, called, history, asked, version>>

\* ------------------------------------------------------------------------
\* The recognizer: token stream, context stack, error strategy state
\* ------------------------------------------------------------------------

\* new streams, a new listener, a new error strategy and a new parser, whose
\* interpreter is given the DFAs of the module
initializeParser(source_, debug_) ==
    [input |-> source_, index |-> 1, status |-> "ok", stack |-> <<>>,
     ctx |-> NullContext, events |-> <<>>, errorRecoveryMode |-> FALSE,
     syntaxErrors |-> 0, console |-> <<>>, debug |-> debug_,
     dfa |-> decisionsToDFA]

Event(kind, index) == [kind |-> kind, index |-> index]

Min(x, y) == IF x <= y THEN x ELSE y

\* BaliErrorListener.syntaxError: prints only in debug mode
syntaxError(st, message) ==
    IF st.debug THEN [st EXCEPT !.console = Append(@, message)] ELSE st

\* a lexer recover that drops the error and goes on scanning
lexerRecoverAndContinue(st) == st

\* BaliDocumentLexer.prototype.recover: fail fast
lexerRecover(st) ==
    [st EXCEPT !.status = "error", !.events = Append(@, Event("abort", st.index))]

\* Lexer.nextToken on a character that starts no token: the listeners are
\* notified and recover is called
lexerError(st, i) ==
    lexerRecover(syntaxError([st EXCEPT !.events = Append(@, Event("lexer", i))],
                             "LEXER"))

\* BufferedTokenStream.sync(i): fetch tokens from the lexer up to index i
sync(st, i) ==
    LET bad == {j \in st.index .. Min(i, Len(st.input)) : st.input[j] \in Unmatched}
    IN IF bad = {} THEN st
       ELSE lexerError(st, CHOOSE j \in bad : \A k \in bad : j <= k)

\* make LA(1) .. LA(k) available
Peek(st, k) == IF st.status # "ok" THEN st ELSE sync(st, st.index + k - 1)

LA(st, k) ==
    IF st.index + k - 1 > Len(st.input) THEN "EOF"
    ELSE TokenType(st.input[st.index + k - 1])

LT(st, k) ==
    IF st.index + k - 1 > Len(st.input) THEN "<EOF>"
    ELSE st.input[st.index + k - 1]

addChild(st, node) ==
    IF st.stack = <<>> THEN [st EXCEPT !.ctx = node]
    ELSE [st EXCEPT !.stack[Len(st.stack)].children = Append(@, node)]

\* Parser.enterRule
enterRule(st, rule, alt) ==
    [st EXCEPT !.stack = Append(@, RuleContext(rule, alt))]

\* Parser.exitRule: the context becomes a child of its parent
exitRule(st) ==
    LET node == st.stack[Len(st.stack)]
    IN addChild([st EXCEPT !.stack = SubSeq(@, 1, Len(@) - 1)], node)

\* localctx = new XContext(this, localctx): the labelled alternative
enterOuterAlt(st, alt) ==
    [st EXCEPT !.stack[Len(st.stack)].alt = alt]

\* Parser.pushNewRecursionContext: the expression parsed so far becomes the
\* first child of the new context
pushNewRecursionContext(st, alt) ==
    LET previous == st.stack[Len(st.stack)]
    IN [st EXCEPT !.stack[Len(st.stack)] =
            [RuleContext("expression", alt) EXCEPT !.children = <<previous>>]]

\* localctx.op = this._input.LT(1)
setOp(st) == [st EXCEPT !.stack[Len(st.stack)].op = LT(st, 1)]

\* Parser.consume
consume(st) ==
    LET s1 == IF LA(st, 1) = "EOF" THEN st ELSE sync(st, st.index + 1)
        node == TerminalNode(LA(st, 1), LT(st, 1), st.index)
    IN IF s1.status # "ok" THEN s1
       ELSE addChild([s1 EXCEPT
                !.index = IF LA(st, 1) = "EOF" THEN @ ELSE @ + 1,
                !.events = Append(@, Event("consume", st.index))], node)

\* DefaultErrorStrategy.reportMatch -> endErrorCondition
reportMatch(st) == [st EXCEPT !.errorRecoveryMode = FALSE]

\* a RecognitionException is thrown inside a rule
raise(st, kind) ==
    [st EXCEPT !.status = "re",
               !.events = Append(@, Event(kind, st.index))]

\* Parser.notifyErrorListeners
notifyErrorListeners(st, message) ==
    syntaxError([st EXCEPT !.syntaxErrors = @ + 1,
                           !.events = Append(@, Event("report", st.index))],
                message)

\* BaliErrorStrategy.reportError
reportError(st) ==
    IF st.debug /\ ~st.errorRecoveryMode
    THEN notifyErrorListeners([st EXCEPT !.errorRecoveryMode = TRUE], "PARSER")
    ELSE st

\* a recover that returns to the rule instead of throwing
recoverAndContinue(st) ==
    [st EXCEPT !.status = "ok",
               !.stack = [i \in 1 .. Len(st.stack) |->
                            [st.stack[i] EXCEPT !.exception = TRUE]]]

\* a recover that throws only when the strategy was made with debug set
recoverInDebugOnly(st) ==
    IF st.debug
    THEN [st EXCEPT !.status = "error",
                    !.stack = [i \in 1 .. Len(st.stack) |->
                                 [st.stack[i] EXCEPT !.exception = TRUE]],
                    !.events = Append(@, Event("abort", st.index))]
    ELSE recoverAndContinue(st)

\* BaliErrorStrategy.recover: mark every context on the stack and throw
recover(st) ==
    [st EXCEPT !.status = "error",
               !.stack = [i \in 1 .. Len(st.stack) |->
                            [st.stack[i] EXCEPT !.exception = TRUE]],
               !.events = Append(@, Event("abort", st.index))]

\* BaliErrorStrategy.recoverInline
recoverInline(st) ==
    recover([st EXCEPT !.events = Append(@, Event("mismatch", st.index))])

\* the catch block of every generated rule function
catch(st) ==
    IF st.status = "re"
    THEN recover(reportError([st EXCEPT !.status = "ok",
                    !.stack[Len(st.stack)].exception = TRUE]))
    ELSE st

\* Parser.match
match(st, ttype) ==
    IF st.status # "ok" THEN st
    ELSE LET s1 == Peek(st, 1)
         IN IF s1.status # "ok" THEN s1
            ELSE IF LA(s1, 1) = ttype THEN consume(reportMatch(s1))
            ELSE recoverInline(s1)

\* a precpred that refuses an operator of the precedence of the call
precpredStrict(_p, precedence) == precedence > _p

\* Parser.precpred
precpred(_p, precedence) == precedence >= _p

\* ------------------------------------------------------------------------
\* The generated rule functions of BaliLanguageParser
\* ------------------------------------------------------------------------

RECURSIVE invoke(_, _, _), expressionLoop(_, _), inlineArrayLoop(_),
          newlineArrayLoop(_), inlineTableLoop(_), newlineTableLoop(_),
          inlineProcedureLoop(_), newlineProcedureLoop(_), handleLoop(_),
          elseIfLoop(_), newlines(_)

\* a prediction that scans ahead meets the lexer's error where the scan does
scanError(st, scan) ==
    LET lexed == {i \in 1 .. Len(scan.events) : scan.events[i].kind = "lexer"}
    IN IF lexed = {} THEN raise(st, "NoViableAlt")
       ELSE lexerError(st, scan.events[CHOOSE i \in lexed : TRUE].index)

\* variable: IDENTIFIER
variable(st) ==
    IF st.status # "ok" THEN st
    ELSE exitRule(catch(invoke("match", enterRule(st, "variable", "Variable"), "IDENTIFIER")))

\* name: IDENTIFIER
name(st) ==
    IF st.status # "ok" THEN st
    ELSE exitRule(catch(invoke("match", enterRule(st, "name", "Name"), "IDENTIFIER")))

\* symbol: SYMBOL
symbol(st) ==
    IF st.status # "ok" THEN st
    ELSE exitRule(catch(invoke("match", enterRule(st, "symbol", "Symbol"), "SYMBOL")))

\* binary: BINARY
binary(st) ==
    IF st.status # "ok" THEN st
    ELSE exitRule(catch(invoke("match", enterRule(st, "binary", "Binary"), "BINARY")))

\* text: TEXT #inlineText | TEXT_BLOCK #newlineText
Parser_text(st) ==
    IF st.status # "ok" THEN st
    ELSE LET s0 == invoke("Peek", enterRule(st, "text", "Text"), 1)
             body == IF s0.status # "ok" THEN s0
                     ELSE IF LA(s0, 1) = "TEXT_BLOCK"
                     THEN invoke("match", enterOuterAlt(s0, "NewlineText"), "TEXT_BLOCK")
                     ELSE raise(s0, "NoViableAlt")
         IN exitRule(catch(body))

\* real: sign='-'? CONSTANT | FLOAT
real(st) ==
    IF st.status # "ok" THEN st
    ELSE LET s0 == invoke("Peek", enterRule(st, "real", "Real"), 1)
             body ==
                IF s0.status # "ok" THEN s0
                ELSE IF LA(s0, 1) \in {"-", "CONSTANT"}
                THEN LET s1 == enterOuterAlt(s0, "ConstantReal")
                         s2 == IF LA(s1, 1) = "-" THEN invoke("match", s1, "-") ELSE s1
                     IN invoke("match", s2, "CONSTANT")
                ELSE IF LA(s0, 1) = "FLOAT"
                THEN invoke("match", enterOuterAlt(s0, "VariableReal"), "FLOAT")
                ELSE raise(s0, "NoViableAlt")
         IN exitRule(catch(body))

\* imaginary: (real | sign='-')? 'i'
imaginary(st) ==
    IF st.status # "ok" THEN st
    ELSE LET s0 == invoke("Peek", enterRule(st, "imaginary", "Imaginary"), 1)
             s1 == IF s0.status = "ok" /\ LA(s0, 1) = "-" THEN invoke("Peek", s0, 2) ELSE s0
             body ==
                IF s1.status # "ok" THEN s1
                ELSE IF LA(s1, 1) = "-" /\ LA(s1, 2) = "i"
                THEN invoke("match", invoke("match", s1, "-"), "i")
                ELSE IF LA(s1, 1) \in RealStart
                THEN invoke("match", invoke("real", s1, 0), "i")
                ELSE invoke("match", s1, "i")
         IN exitRule(catch(body))

\* number: ... | real #realNumber | '(' real del=(',' | 'e^') imaginary ')'
number(st) ==
    IF st.status # "ok" THEN st
    ELSE LET s0 == invoke("Peek", enterRule(st, "number", "Number"), 1)
             body ==
                IF s0.status # "ok" THEN s0
                ELSE IF LA(s0, 1) = "("
                THEN LET s1 == invoke("real", invoke("match", enterOuterAlt(s0, "ComplexNumber"), "("), 0)
                         s2 == invoke("Peek", s1, 1)
                         s3 == IF s2.status # "ok" THEN s2
                               ELSE IF LA(s2, 1) \in {",", "e^"}
                               THEN invoke("consume", reportMatch(setOp(s2)), 0)
                               ELSE invoke("recoverInline", s2, 0)
                     IN invoke("match", invoke("imaginary", s3, 0), ")")
                ELSE IF LA(s0, 1) \in RealStart
                THEN invoke("real", enterOuterAlt(s0, "RealNumber"), 0)
                ELSE raise(s0, "NoViableAlt")
         IN exitRule(catch(body))

\* element: (number | symbol | ...) parameters?
element(st) ==
    IF st.status # "ok" THEN st
    ELSE LET s0 == invoke("Peek", enterRule(st, "element", "Element"), 1)
             \* a real may be the start of a percent or of an imaginary number
             s1 == IF s0.status = "ok" /\ LA(s0, 1) = "FLOAT" THEN invoke("Peek", s0, 2) ELSE s0
             s2 == IF s1.status # "ok" THEN s1
                   ELSE IF LA(s1, 1) = "SYMBOL" THEN invoke("symbol", s1, 0)
                   ELSE IF LA(s1, 1) = "BINARY" THEN invoke("binary", s1, 0)
                   ELSE IF LA(s1, 1) = "TEXT_BLOCK" THEN invoke("text", s1, 0)
                   ELSE IF LA(s1, 1) \in ElementStart THEN invoke("number", s1, 0)
                   ELSE raise(s1, "NoViableAlt")
             s3 == invoke("Peek", s2, 1)
             body == IF s3.status = "ok" /\ LA(s3, 1) = "(" THEN invoke("parameters", s3, 0) ELSE s3
         IN CASE s2.status = "error" -> exitRule(s2)
              [] body.status = "re" -> exitRule(catch(body))
              [] OTHER -> exitRule(body)

\* component: element | structure | block
component(st) ==
    IF st.status # "ok" THEN st
    ELSE LET s0 == invoke("Peek", enterRule(st, "component", "Component"), 1)
             body ==
                IF s0.status # "ok" THEN s0
                ELSE IF LA(s0, 1) \in ElementStart THEN invoke("element", s0, 0)
                ELSE IF LA(s0, 1) = "[" THEN invoke("structure", s0, 0)
                ELSE IF LA(s0, 1) = "{" THEN invoke("block", s0, 0)
                ELSE raise(s0, "NoViableAlt")
         IN CASE body.status = "re" -> exitRule(catch(body))
              [] OTHER -> exitRule(body)

\* structure: '[' composite ']' parameters?
structure(st) ==
    IF st.status # "ok" THEN st
    ELSE LET s1 == invoke("composite", invoke("match", enterRule(st, "structure", "Structure"), "["), 0)
             s2 == IF s1.status # "ok" THEN s1 ELSE invoke("Peek", invoke("match", s1, "]"), 1)
             body == IF s2.status = "ok" /\ LA(s2, 1) = "(" THEN invoke("parameters", s2, 0) ELSE s2
         IN CASE s1.status = "error" -> exitRule(s1)
              [] body.status = "re" -> exitRule(catch(body))
              [] OTHER -> exitRule(body)

\* parameters: '(' composite ')'
parameters(st) ==
    IF st.status # "ok" THEN st
    ELSE LET s1 == invoke("composite", invoke("match", enterRule(st, "parameters", "Parameters"), "("), 0)
             body == IF s1.status # "ok" THEN s1 ELSE invoke("match", s1, ")")
         IN CASE s1.status = "error" -> exitRule(s1)
              [] body.status = "re" -> exitRule(catch(body))
              [] OTHER -> exitRule(body)

\* a DFA state of a decision: the prediction reached by a lookahead
DFAState(st, decision, n, alt) ==
    [decision |-> decision, lookahead |-> [k \in 1 .. n |-> LA(st, k)], alt |-> alt]

\* a lookup that follows the first token only
cachedPredictionsByFirstToken(st, decision) ==
    {s \in st.dfa : s.decision = decision /\ s.lookahead[1] = LA(st, 1)}

\* the DFA states of a decision that the tokens ahead lead to
cachedPredictions(st, decision) ==
    {s \in st.dfa : /\ s.decision = decision
                    /\ \A k \in 1 .. Len(s.lookahead) : s.lookahead[k] = LA(st, k)}

\* the prediction is added to the DFA of the decision
addDFAState(st, decision, n, alt) ==
    [alt |-> alt, st |-> [st EXCEPT !.dfa = @ \cup {DFAState(st, decision, n, alt)}]]

\* the simulation of the ATN for decision 4: range (1), array (2) or table
\* (3).  The prediction reads the first expression and the token after it.
simulateComposite(st) ==
    IF LA(st, 1) \in {"]", ")"} THEN addDFAState(st, 4, 1, 2)
    ELSE IF LA(st, 1) = ":" THEN addDFAState(st, 4, 1, 3)
    ELSE LET scratch == [st EXCEPT !.stack = <<>>, !.events = <<>>]
             skipped == IF LA(st, 1) = "NEWLINE" THEN invoke("match", scratch, "NEWLINE") ELSE scratch
             first == invoke("Peek", skipped, 1)
             scan == invoke("Peek", invoke("expression", first, 0), 1)
             n == scan.index - st.index + 1
         IN IF first.status = "ok" /\ LA(st, 1) = "NEWLINE" /\ LA(first, 1) \in {"]", ")"}
            THEN addDFAState(st, 4, 2, 2)
            ELSE IF scan.status # "ok" THEN [alt |-> 0, st |-> scanError(st, scan)]
            ELSE IF LA(scan, 1) = ".." /\ LA(st, 1) # "NEWLINE" THEN addDFAState(st, 4, n, 1)
            ELSE IF LA(scan, 1) = ":" THEN addDFAState(st, 4, n, 3)
            ELSE IF LA(scan, 1) \in {",", "]", ")", "NEWLINE"} THEN addDFAState(st, 4, n, 2)
            ELSE [alt |-> 0, st |-> raise(st, "NoViableAlt")]

\* adaptivePredict(_input, 4): the prediction of the DFA if the tokens
\* ahead lead to one of its states, and that of the simulation otherwise
predictComposite(st) ==
    LET cached == cachedPredictions(st, 4)
    IN IF cached # {} THEN [alt |-> (CHOOSE s \in cached : TRUE).alt, st |-> st]
       ELSE simulateComposite(st)

\* composite: range | array | table
composite(st) ==
    IF st.status # "ok" THEN st
    ELSE LET s0 == invoke("Peek", enterRule(st, "composite", "Composite"), 1)
             p == predictComposite(s0)
             body ==
                IF s0.status # "ok" THEN s0
                ELSE IF p.alt = 1 THEN invoke("range", p.st, 0)
                ELSE IF p.alt = 2 THEN invoke("array", p.st, 0)
                ELSE IF p.alt = 3 THEN invoke("table", p.st, 0)
                ELSE p.st
         IN CASE body.status = "re" -> exitRule(catch(body))
              [] OTHER -> exitRule(body)

\* range: expression '..' expression
range(st) ==
    IF st.status # "ok" THEN st
    ELSE LET s1 == invoke("expression", enterRule(st, "range", "Range"), 0)
             body == IF s1.status # "ok" THEN s1 ELSE invoke("expression", invoke("match", s1, ".."), 0)
         IN CASE s1.status = "error" -> exitRule(s1)
              [] body.status = "re" -> exitRule(catch(body))
              [] OTHER -> exitRule(body)

\* (',' expression)*
inlineArrayLoop(st) ==
    LET s0 == invoke("Peek", st, 1)
        s1 == invoke("expression", invoke("match", s0, ","), 0)
    IN IF s0.status # "ok" \/ LA(s0, 1) # "," THEN s0
       ELSE IF s1.status # "ok" THEN s1
       ELSE inlineArrayLoop(s1)

\* (expression NEWLINE)*
newlineArrayLoop(st) ==
    LET s0 == invoke("Peek", st, 1)
        s1 == invoke("expression", s0, 0)
    IN IF s0.status # "ok" \/ LA(s0, 1) \notin ExpressionStart THEN s0
       ELSE IF s1.status # "ok" THEN s1
       ELSE newlineArrayLoop(invoke("match", s1, "NEWLINE"))

\* array: expression (',' expression)* | NEWLINE (expression NEWLINE)* | /*empty*/
array(st) ==
    IF st.status # "ok" THEN st
    ELSE LET s0 == invoke("Peek", enterRule(st, "array", "Array"), 1)
             s1 == invoke("expression", enterOuterAlt(s0, "InlineArray"), 0)
             body ==
                IF s0.status # "ok" THEN s0
                ELSE IF LA(s0, 1) \in ExpressionStart
                THEN IF s1.status # "ok" THEN s1 ELSE inlineArrayLoop(s1)
                ELSE IF LA(s0, 1) = "NEWLINE"
                THEN newlineArrayLoop(invoke("match", enterOuterAlt(s0, "NewlineArray"), "NEWLINE"))
                ELSE IF LA(s0, 1) \in {"]", ")"}
                THEN enterOuterAlt(s0, "EmptyArray")
                ELSE raise(s0, "NoViableAlt")
         IN CASE body.status = "re" -> exitRule(catch(body))
              [] OTHER -> exitRule(body)

\* association: element ':' expression
association(st) ==
    IF st.status # "ok" THEN st
    ELSE LET s1 == invoke("element", enterRule(st, "association", "Association"), 0)
             body == IF s1.status # "ok" THEN s1 ELSE invoke("expression", invoke("match", s1, ":"), 0)
         IN CASE s1.status = "error" -> exitRule(s1)
              [] body.status = "re" -> exitRule(catch(body))
              [] OTHER -> exitRule(body)

\* (',' association)*
inlineTableLoop(st) ==
    LET s0 == invoke("Peek", st, 1)
        s1 == invoke("association", invoke("match", s0, ","), 0)
    IN IF s0.status # "ok" \/ LA(s0, 1) # "," THEN s0
       ELSE IF s1.status # "ok" THEN s1
       ELSE inlineTableLoop(s1)

\* (association NEWLINE)*
newlineTableLoop(st) ==
    LET s0 == invoke("Peek", st, 1)
        s1 == invoke("association", s0, 0)
    IN IF s0.status # "ok" \/ LA(s0, 1) \notin ElementStart THEN s0
       ELSE IF s1.status # "ok" THEN s1
       ELSE newlineTableLoop(invoke("match", s1, "NEWLINE"))

\* table: association (',' association)* | NEWLINE (association NEWLINE)* | ':'
table(st) ==
    IF st.status # "ok" THEN st
    ELSE LET s0 == invoke("Peek", enterRule(st, "table", "Table"), 1)
             s1 == invoke("association", enterOuterAlt(s0, "InlineTable"), 0)
             body ==
                IF s0.status # "ok" THEN s0
                ELSE IF LA(s0, 1) \in ElementStart
                THEN IF s1.status # "ok" THEN s1 ELSE inlineTableLoop(s1)
                ELSE IF LA(s0, 1) = "NEWLINE"
                THEN newlineTableLoop(invoke("match", enterOuterAlt(s0, "NewlineTable"), "NEWLINE"))
                ELSE IF LA(s0, 1) = ":"
                THEN invoke("match", enterOuterAlt(s0, "EmptyTable"), ":")
                ELSE raise(s0, "NoViableAlt")
         IN CASE body.status = "re" -> exitRule(catch(body))
              [] OTHER -> exitRule(body)

\* indices: '[' array ']'
indices(st) ==
    IF st.status # "ok" THEN st
    ELSE LET s1 == invoke("array", invoke("match", enterRule(st, "indices", "Indices"), "["), 0)
             body == IF s1.status # "ok" THEN s1 ELSE invoke("match", s1, "]")
         IN CASE s1.status = "error" -> exitRule(s1)
              [] body.status = "re" -> exitRule(catch(body))
              [] OTHER -> exitRule(body)

\* invocation: name parameters
invocation(st) ==
    IF st.status # "ok" THEN st
    ELSE LET body == invoke("parameters", invoke("name", enterRule(st, "invocation", "Invocation"), 0), 0)
         IN CASE body.status = "re" -> exitRule(catch(body))
              [] OTHER -> exitRule(body)

\* block: '{' procedure '}' parameters?
block(st) ==
    IF st.status # "ok" THEN st
    ELSE LET s1 == invoke("procedure", invoke("match", enterRule(st, "block", "Block"), "{"), 0)
             s2 == IF s1.status # "ok" THEN s1 ELSE invoke("Peek", invoke("match", s1, "}"), 1)
             body == IF s2.status = "ok" /\ LA(s2, 1) = "(" THEN invoke("parameters", s2, 0) ELSE s2
         IN CASE s1.status = "error" -> exitRule(s1)
              [] body.status = "re" -> exitRule(catch(body))
              [] OTHER -> exitRule(body)

\* (';' statement)*
inlineProcedureLoop(st) ==
    LET s0 == invoke("Peek", st, 1)
        s1 == invoke("statement", invoke("match", s0, ";"), 0)
    IN IF s0.status # "ok" \/ LA(s0, 1) # ";" THEN s0
       ELSE IF s1.status # "ok" THEN s1
       ELSE inlineProcedureLoop(s1)

\* (statement NEWLINE)*
newlineProcedureLoop(st) ==
    LET s0 == invoke("Peek", st, 1)
        s1 == invoke("statement", s0, 0)
    IN IF s0.status # "ok" \/ LA(s0, 1) \notin StatementStart THEN s0
       ELSE IF s1.status # "ok" THEN s1
       ELSE newlineProcedureLoop(invoke("match", s1, "NEWLINE"))

\* procedure: statement (';' statement)* | NEWLINE (statement NEWLINE)* | /*empty*/
procedure(st) ==
    IF st.status # "ok" THEN st
    ELSE LET s0 == invoke("Peek", enterRule(st, "procedure", "Procedure"), 1)
             s1 == invoke("statement", enterOuterAlt(s0, "InlineProcedure"), 0)
             body ==
                IF s0.status # "ok" THEN s0
                ELSE IF LA(s0, 1) \in StatementStart
                THEN IF s1.status # "ok" THEN s1 ELSE inlineProcedureLoop(s1)
                ELSE IF LA(s0, 1) = "NEWLINE"
                THEN newlineProcedureLoop(invoke("match", enterOuterAlt(s0, "NewlineProcedure"), "NEWLINE"))
                ELSE enterOuterAlt(s0, "EmptyProcedure")
         IN CASE body.status = "re" -> exitRule(catch(body))
              [] OTHER -> exitRule(body)

\* handleClause*
handleLoop(st) ==
    LET s0 == invoke("Peek", st, 1)
        s1 == invoke("handleClause", s0, 0)
    IN IF s0.status # "ok" \/ LA(s0, 1) # "handle" THEN s0
       ELSE IF s1.status # "ok" THEN s1
       ELSE handleLoop(s1)

\* statement: (evaluateClause | ... | ifClause | ... | returnClause | ...)
\*            handleClause* finishClause?
statement(st) ==
    IF st.status # "ok" THEN st
    ELSE LET s0 == invoke("Peek", enterRule(st, "statement", "Statement"), 1)
             \* an identifier may be the label of a while or with clause
             s1 == IF s0.status = "ok" /\ LA(s0, 1) = "IDENTIFIER" THEN invoke("Peek", s0, 2) ELSE s0
             main ==
                IF s1.status # "ok" THEN s1
                ELSE IF LA(s1, 1) = "if" THEN invoke("ifClause", s1, 0)
                ELSE IF LA(s1, 1) = "return" THEN invoke("returnClause", s1, 0)
                ELSE IF LA(s1, 1) \in ExpressionStart THEN invoke("evaluateClause", s1, 0)
                ELSE raise(s1, "NoViableAlt")
             s2 == IF main.status # "ok" THEN main ELSE handleLoop(main)
             s3 == invoke("Peek", s2, 1)
             body == IF s3.status = "ok" /\ LA(s3, 1) = "finish" THEN invoke("finishClause", s3, 0) ELSE s3
         IN CASE main.status = "error" -> exitRule(main)
              [] s2.status = "error" -> exitRule(s2)
              [] body.status = "re" -> exitRule(catch(body))
              [] OTHER -> exitRule(body)

\* handleClause: 'handle' symbol 'matching' expression 'with' block
handleClause(st) ==
    IF st.status # "ok" THEN st
    ELSE LET s1 == invoke("expression", invoke("match", invoke("symbol", invoke("match", 
                        enterRule(st, "handleClause", "HandleClause"),
                        "handle"), 0), "matching"), 0)
             body == IF s1.status # "ok" THEN s1 ELSE invoke("block", invoke("match", s1, "with"), 0)
         IN CASE s1.status = "error" -> exitRule(s1)
              [] body.status = "re" -> exitRule(catch(body))
              [] OTHER -> exitRule(body)

\* finishClause: 'finish' 'with' block
finishClause(st) ==
    IF st.status # "ok" THEN st
    ELSE LET body == invoke("block", invoke("match", invoke("match", 
                        enterRule(st, "finishClause", "FinishClause"), "finish"), "with"), 0)
         IN CASE body.status = "re" -> exitRule(catch(body))
              [] OTHER -> exitRule(body)

\* adaptivePredict(_input, 21): is there a recipient before ':='
predictRecipient(st) ==
    IF LA(st, 1) = "SYMBOL"
    THEN LET s1 == invoke("Peek", st, 2)
         IN [alt |-> IF s1.status = "ok" /\ LA(s1, 2) = ":=" THEN 1 ELSE 2, st |-> s1]
    ELSE IF LA(st, 1) = "IDENTIFIER"
    THEN LET s1 == invoke("Peek", st, 2)
             scratch == [s1 EXCEPT !.stack = <<>>, !.events = <<>>]
             scan == invoke("Peek", invoke("indices", invoke("variable", scratch, 0), 0), 1)
         IN IF s1.status # "ok" \/ LA(s1, 2) # "[" THEN [alt |-> 2, st |-> s1]
            ELSE IF scan.status = "ok" /\ LA(scan, 1) = ":=" THEN [alt |-> 1, st |-> s1]
            ELSE [alt |-> 2, st |-> s1]
    ELSE [alt |-> 2, st |-> st]

\* evaluateClause: ((symbol | variable indices) ':=')? expression
evaluateClause(st) ==
    IF st.status # "ok" THEN st
    ELSE LET s0 == invoke("Peek", enterRule(st, "evaluateClause", "EvaluateClause"), 1)
             p == predictRecipient(s0)
             subcomponent == invoke("indices", invoke("variable", p.st, 0), 0)
             s1 == IF s0.status # "ok" THEN s0
                   ELSE IF p.st.status # "ok" THEN p.st
                   ELSE IF p.alt # 1 THEN p.st
                   ELSE IF LA(p.st, 1) = "SYMBOL" THEN invoke("match", invoke("symbol", p.st, 0), ":=")
                   ELSE IF subcomponent.status # "ok" THEN subcomponent
                   ELSE invoke("match", subcomponent, ":=")
             body == IF s1.status # "ok" THEN s1 ELSE invoke("expression", s1, 0)
         IN CASE s1.status = "error" -> exitRule(s1)
              [] body.status = "re" -> exitRule(catch(body))
              [] OTHER -> exitRule(body)

\* ('else' 'if' expression 'then' block)*
elseIfLoop(st) ==
    LET s0 == invoke("Peek", st, 1)
        s1 == IF s0.status = "ok" /\ LA(s0, 1) = "else" THEN invoke("Peek", s0, 2) ELSE s0
        s2 == invoke("expression", invoke("match", invoke("match", s1, "else"), "if"), 0)
        s3 == IF s2.status # "ok" THEN s2 ELSE invoke("block", invoke("match", s2, "then"), 0)
    IN IF s1.status # "ok" \/ LA(s1, 1) # "else" THEN s1
       ELSE IF LA(s1, 2) = "{" THEN s1
       ELSE IF LA(s1, 2) # "if" THEN raise(s1, "NoViableAlt")
       ELSE IF s2.status # "ok" THEN s2
       ELSE IF s3.status # "ok" THEN s3
       ELSE elseIfLoop(s3)

\* ifClause: 'if' expression 'then' block ('else' 'if' expression 'then' block)*
\*           ('else' block)?
ifClause(st) ==
    IF st.status # "ok" THEN st
    ELSE LET s1 == invoke("expression", invoke("match", enterRule(st, "ifClause", "IfClause"), "if"), 0)
             s2 == IF s1.status # "ok" THEN s1 ELSE invoke("block", invoke("match", s1, "then"), 0)
             s3 == IF s2.status # "ok" THEN s2 ELSE elseIfLoop(s2)
             s4 == invoke("Peek", s3, 1)
             body == IF s4.status = "ok" /\ LA(s4, 1) = "else"
                     THEN invoke("block", invoke("match", s4, "else"), 0) ELSE s4
         IN CASE s1.status = "error" -> exitRule(s1)
              [] s2.status = "error" -> exitRule(s2)
              [] s3.status = "error" -> exitRule(s3)
              [] body.status = "re" -> exitRule(catch(body))
              [] OTHER -> exitRule(body)

\* returnClause: 'return' expression?
returnClause(st) ==
    IF st.status # "ok" THEN st
    ELSE LET s1 == invoke("Peek", invoke("match", enterRule(st, "returnClause", "ReturnClause"), "return"), 1)
             body == IF s1.status = "ok" /\ LA(s1, 1) \in ExpressionStart
                     THEN invoke("expression", s1, 0) ELSE s1
         IN CASE body.status = "re" -> exitRule(catch(body))
              [] OTHER -> exitRule(body)

\* adaptivePredict(_input, 32): the alternative that starts an expression
predictPrimary(st) ==
    LET t == LA(st, 1)
        s2 == invoke("Peek", st, 2)
        s3 == invoke("Peek", s2, 3)
        s4 == invoke("Peek", s3, 4)
        Delimiters == {",", "e^"}
    IN IF t = "IDENTIFIER"
       THEN [alt |-> IF s2.status = "ok" /\ LA(s2, 2) = "(" THEN 3 ELSE 2, st |-> s2]
       ELSE IF t = "("
       THEN IF s2.status # "ok" THEN [alt |-> 4, st |-> s2]
            ELSE IF LA(s2, 2) \in {"FLOAT", "CONSTANT"}
            THEN [alt |-> IF s3.status = "ok" /\ LA(s3, 3) \in Delimiters THEN 1 ELSE 4,
                  st |-> s3]
            ELSE IF LA(s2, 2) = "-" /\ s3.status = "ok" /\ LA(s3, 3) = "CONSTANT"
            THEN [alt |-> IF s4.status = "ok" /\ LA(s4, 4) \in Delimiters THEN 1 ELSE 4,
                  st |-> s4]
            ELSE [alt |-> 4, st |-> IF LA(s2, 2) = "-" THEN s3 ELSE s2]
       ELSE IF t = "-"
       THEN [alt |-> IF s2.status = "ok" /\ LA(s2, 2) \in {"CONSTANT", "i"} THEN 1 ELSE 6,
             st |-> s2]
       ELSE IF t \in {"FLOAT", "SYMBOL", "CONSTANT", "BINARY", "TEXT_BLOCK", "[", "{"}
       THEN [alt |-> 1, st |-> st]
       ELSE IF t = "@" THEN [alt |-> 5, st |-> st]
       ELSE IF t \in InversionOperators THEN [alt |-> 6, st |-> st]
       ELSE IF t = "|" THEN [alt |-> 7, st |-> st]
       ELSE IF t = "not" THEN [alt |-> 8, st |-> st]
       ELSE [alt |-> 0, st |-> raise(st, "NoViableAlt")]

\* an expression_sempred whose factorial has a precedence below the power
sempredFactorialBelowPower(_p, predIndex) ==
    CASE predIndex = 0 -> precpred(_p, 8)
      [] predIndex = 1 -> precpred(_p, 6)
      [] predIndex = 2 -> precpred(_p, 4)
      [] predIndex = 3 -> precpred(_p, 2)
      [] predIndex = 4 -> precpred(_p, 1)
      [] predIndex = 5 -> precpred(_p, 11)
      [] predIndex = 6 -> precpred(_p, 10)
      [] predIndex = 7 -> precpred(_p, 7)

\* an expression_sempred whose arithmetic alternative has the precedence of
\* its own operand
sempredArithmeticAboveOperand(_p, predIndex) ==
    CASE predIndex = 0 -> precpred(_p, 8)
      [] predIndex = 1 -> precpred(_p, 7)
      [] predIndex = 2 -> precpred(_p, 4)
      [] predIndex = 3 -> precpred(_p, 2)
      [] predIndex = 4 -> precpred(_p, 1)
      [] predIndex = 5 -> precpred(_p, 11)
      [] predIndex = 6 -> precpred(_p, 10)
      [] predIndex = 7 -> precpred(_p, 9)

\* expression_sempred: the precedence each operator alternative requires
expression_sempred(_p, predIndex) ==
    CASE predIndex = 0 -> precpred(_p, 8)
      [] predIndex = 1 -> precpred(_p, 6)
      [] predIndex = 2 -> precpred(_p, 4)
      [] predIndex = 3 -> precpred(_p, 2)
      [] predIndex = 4 -> precpred(_p, 1)
      [] predIndex = 5 -> precpred(_p, 11)
      [] predIndex = 6 -> precpred(_p, 10)
      [] predIndex = 7 -> precpred(_p, 9)

\* the operator alternative (1..8) that a token starts, 0 if none
operatorAlternative(t) ==
    IF t = "^" THEN 1
    ELSE IF t \in ArithmeticOperators THEN 2
    ELSE IF t \in ComparisonOperators THEN 3
    ELSE IF t \in LogicalOperators THEN 4
    ELSE IF t = "?" THEN 5
    ELSE IF t = "." THEN 6
    ELSE IF t = "[" THEN 7
    ELSE IF t = "!" THEN 8
    ELSE 0

\* adaptivePredict(_input, 34) and (_input, 33): continue with an operator
\* alternative whose precedence predicate holds, or leave the loop (0)
predictOperator(t, _p) ==
    LET alt == operatorAlternative(t)
    IN IF alt # 0 /\ expression_sempred(_p, alt - 1) THEN alt ELSE 0

\* op=(...) : consume the operator if it is one of the set
matchSet(st, set) ==
    LET s1 == invoke("Peek", st, 1)
    IN IF s1.status # "ok" THEN s1
       ELSE IF LA(s1, 1) \in set THEN invoke("consume", reportMatch(setOp(s1)), 0)
       ELSE invoke("recoverInline", setOp(s1), 0)

\* operand precedences that make the arithmetic operators group to the right
operandPrecedenceRightArithmetic(alt) ==
    CASE alt = 1 -> 8
      [] alt = 2 -> 6
      [] alt = 3 -> 5
      [] alt = 4 -> 3
      [] alt = 5 -> 2

\* operand precedences that make the power group to the left
operandPrecedenceLeftPower(alt) ==
    CASE alt = 1 -> 9
      [] alt = 2 -> 7
      [] alt = 3 -> 5
      [] alt = 4 -> 3
      [] alt = 5 -> 2

\* the operand precedence passed to the recursive call of each alternative
operandPrecedence(alt) ==
    CASE alt = 1 -> 8
      [] alt = 2 -> 7
      [] alt = 3 -> 5
      [] alt = 4 -> 3
      [] alt = 5 -> 2

\* one operator alternative of the loop of the expression rule
operatorAlt(st, alt, _p) ==
    LET labels == <<"ExponentialExpression", "ArithmeticExpression",
                    "ComparisonExpression", "LogicalExpression",
                    "DefaultExpression", "MessageExpression",
                    "SubcomponentExpression", "FactorialExpression">>
        s0 == pushNewRecursionContext(st, labels[alt])
    IN IF ~expression_sempred(_p, alt - 1) THEN raise(s0, "FailedPredicate")
       ELSE CASE alt = 1 -> invoke("expression", invoke("match", s0, "^"), operandPrecedence(1))
              [] alt = 2 -> invoke("expression", invoke("matchSet", s0, ArithmeticOperators), operandPrecedence(2))
              [] alt = 3 -> invoke("expression", invoke("matchSet", s0, ComparisonOperators), operandPrecedence(3))
              [] alt = 4 -> invoke("expression", invoke("matchSet", s0, LogicalOperators), operandPrecedence(4))
              [] alt = 5 -> invoke("expression", invoke("match", s0, "?"), operandPrecedence(5))
              [] alt = 6 -> invoke("invocation", invoke("match", s0, "."), 0)
              [] alt = 7 -> invoke("indices", s0, 0)
              [] alt = 8 -> invoke("match", s0, "!")

\* the loop of the left-recursive expression rule
expressionLoop(st, _p) ==
    LET s0 == invoke("Peek", st, 1)
        alt == predictOperator(LA(s0, 1), _p)
        s1 == operatorAlt(s0, alt, _p)
    IN IF s0.status # "ok" \/ alt = 0 THEN s0
       ELSE IF s1.status # "ok" THEN s1
       ELSE expressionLoop(s1, _p)

\* the alternative that starts an expression
primaryAlt(st, alt) ==
    LET precedence == invoke("expression", invoke("match", 
                        enterOuterAlt(st, "PrecedenceExpression"), "("), 0)
        magnitude == invoke("expression", invoke("match", 
                        enterOuterAlt(st, "MagnitudeExpression"), "|"), 0)
    IN CASE alt = 1 -> invoke("component", enterOuterAlt(st, "ComponentExpression"), 0)
         [] alt = 2 -> invoke("variable", enterOuterAlt(st, "VariableExpression"), 0)
         [] alt = 3 -> invoke("invocation", enterOuterAlt(st, "FunctionExpression"), 0)
         [] alt = 4 -> IF precedence.status # "ok" THEN precedence
                       ELSE invoke("match", precedence, ")")
         [] alt = 5 -> invoke("expression", invoke("match", 
                        enterOuterAlt(st, "DereferenceExpression"), "@"), 12)
         [] alt = 6 -> invoke("expression", invoke("matchSet", 
                        enterOuterAlt(st, "InversionExpression"), InversionOperators), 7)
         [] alt = 7 -> IF magnitude.status # "ok" THEN magnitude
                       ELSE invoke("match", magnitude, "|")
         [] alt = 8 -> invoke("expression", invoke("match", 
                        enterOuterAlt(st, "ComplementExpression"), "not"), 3)

\* expression: the left-recursive rule with its precedence argument _p
expression(st, _p) ==
    IF st.status # "ok" THEN st
    ELSE LET s0 == invoke("Peek", enterRule(st, "expression", "Expression"), 1)
             p == predictPrimary(s0)
             s1 == IF s0.status # "ok" THEN s0
                   ELSE IF p.st.status # "ok" THEN p.st
                   ELSE primaryAlt(p.st, p.alt)
             body == IF s1.status # "ok" THEN s1 ELSE expressionLoop(s1, _p)
         IN CASE s1.status = "error" -> exitRule(s1)
              [] body.status = "re" -> exitRule(catch(body))
              [] OTHER -> exitRule(body)

\* NEWLINE*
newlines(st) ==
    LET s0 == invoke("Peek", st, 1)
    IN IF s0.status = "ok" /\ LA(s0, 1) = "NEWLINE"
       THEN newlines(invoke("match", s0, "NEWLINE"))
       ELSE s0

\* document: NEWLINE* component NEWLINE* EOF
document(st) ==
    IF st.status # "ok" THEN st
    ELSE LET s1 == invoke("component", newlines(enterRule(st, "document", "Document")), 0)
             body == IF s1.status # "ok" THEN s1 ELSE invoke("match", newlines(s1), "EOF")
         IN CASE s1.status = "error" -> exitRule(s1)
              [] body.status = "re" -> exitRule(catch(body))
              [] OTHER -> exitRule(body)

\* this.method(arg): a call of a method of the parser from a rule function
\* or from an entry point.  The argument is the precedence _p of expression,
\* the token type of match, the token types of a set, the distance of a
\* lookahead, and is not used by the other methods.
invoke(method, st, arg) ==
    CASE method = "document" -> document(st)
      [] method = "expression" -> expression(st, arg)
      [] method = "component" -> component(st)
      [] method = "element" -> element(st)
      [] method = "structure" -> structure(st)
      [] method = "parameters" -> parameters(st)
      [] method = "composite" -> composite(st)
      [] method = "range" -> range(st)
      [] method = "array" -> array(st)
      [] method = "table" -> table(st)
      [] method = "association" -> association(st)
      [] method = "block" -> block(st)
      [] method = "procedure" -> procedure(st)
      [] method = "statement" -> statement(st)
      [] method = "handleClause" -> handleClause(st)
      [] method = "finishClause" -> finishClause(st)
      [] method = "evaluateClause" -> evaluateClause(st)
      [] method = "ifClause" -> ifClause(st)
      [] method = "returnClause" -> returnClause(st)
      [] method = "indices" -> indices(st)
      [] method = "invocation" -> invocation(st)
      [] method = "variable" -> variable(st)
      [] method = "name" -> name(st)
      [] method = "symbol" -> symbol(st)
      [] method = "binary" -> binary(st)
      [] method = "text" -> Parser_text(st)
      [] method = "real" -> real(st)
      [] method = "imaginary" -> imaginary(st)
      [] method = "number" -> number(st)
      [] method = "match" -> match(st, arg)
      [] method = "matchSet" -> matchSet(st, arg)
      [] method = "Peek" -> Peek(st, arg)
      [] method = "consume" -> consume(st)
      [] method = "recoverInline" -> recoverInline(st)

\* ------------------------------------------------------------------------
\* AST nodes
\* ------------------------------------------------------------------------

\* the number of characters of a lexeme
TextLength(text) ==
    IF text \in {"$x", "$y", "pi", "e^", "//", "is", "or", ".."} THEN 2
    ELSE IF text \in {"phi", "and", "xor", "not"} THEN 3
    ELSE IF text = "sans" THEN 4
    ELSE IF text = "matches" THEN 7
    ELSE 1

RECURSIVE ValueLength(_)

ValueLength(value) ==
    IF value = <<>> THEN 0 ELSE TextLength(Head(value)) + ValueLength(Tail(value))

\* new Tree(type, size)
Tree(type, size) ==
    [type |-> type, operator |-> "", value |-> <<>>, children |-> <<>>, size |-> size]

\* new Terminal(type, value); a value is the sequence of its pieces of text
Terminal(type, value) ==
    [type |-> type, operator |-> "", value |-> value, children |-> <<>>,
     size |-> ValueLength(value)]

\* what a visit method leaves when it calls a method of null
TypeErrorNode == Tree("TypeError", 0)

\* Tree.prototype.addChild
treeAddChild(tree, child) ==
    IF tree.type = "TypeError" \/ child.type = "TypeError" THEN TypeErrorNode
    ELSE [tree EXCEPT !.children = Append(@, child), !.size = @ + child.size]

\* a setOperator that leaves the tree as it is
keepOperator(tree, text) == tree

\* tree.operator = ctx.op.text
setOperator(tree, text) ==
    IF tree.type = "TypeError" THEN tree ELSE [tree EXCEPT !.operator = text]

\* tree.size += n
addSize(tree, n) ==
    IF tree.type = "TypeError" THEN tree ELSE [tree EXCEPT !.size = @ + n]

\* ------------------------------------------------------------------------
\* ParsingVisitor: the conversion of a parse tree
\* ------------------------------------------------------------------------

\* ParserRuleContext.getTypedRuleContexts
getTypedRuleContexts(ctx, rule) ==
    SelectSeq(ctx.children, LAMBDA c : c.rule = rule)

\* ParserRuleContext.getTypedRuleContext
getTypedRuleContext(ctx, rule, i) ==
    LET contexts == getTypedRuleContexts(ctx, rule)
    IN IF i + 1 <= Len(contexts) THEN contexts[i + 1] ELSE NullContext

\* ParserRuleContext.getToken(type, 0).getText(), <<>> if there is none
getTokenText(ctx, type) ==
    LET tokens == SelectSeq(ctx.children, LAMBDA c : c.rule = "TERMINAL" /\ c.alt = type)
    IN IF tokens = <<>> THEN <<>> ELSE <<tokens[1].op>>

ruleChildren(ctx) == SelectSeq(ctx.children, LAMBDA c : c.rule # "TERMINAL")

RECURSIVE Visit(_, _), visitEach(_, _, _, _)

\* contexts.forEach(function(c) { c.accept(this); tree.addChild(this.result);
\*                                tree.size += increment; }, this)
visitEach(tree, contexts, depth, increment) ==
    IF contexts = <<>> THEN tree
    ELSE visitEach(addSize(treeAddChild(tree, Visit(Head(contexts), depth)), increment),
                   Tail(contexts), depth, increment)

\* ParseTreeVisitor.visitChildren: the result of the last child visited
visitChildren(ctx, depth) ==
    LET contexts == ruleChildren(ctx)
    IN IF contexts = <<>> THEN TypeErrorNode ELSE Visit(contexts[Len(contexts)], depth)

\* variableReal: FLOAT and constantReal: sign='-'? CONSTANT
visitReal(ctx) ==
    IF ctx.alt = "VariableReal" THEN getTokenText(ctx, "FLOAT")
    ELSE IF ctx.alt = "ConstantReal"
    THEN getTokenText(ctx, "-") \o getTokenText(ctx, "CONSTANT")
    ELSE <<>>

\* imaginary: (real | sign='-')? 'i'
visitImaginary(ctx) ==
    LET real_ == getTypedRuleContext(ctx, "real", 0)
    IN IF real_.rule # "null"
       THEN visitReal(real_) \o (IF real_.alt = "ConstantReal" THEN <<" ">> ELSE <<>>) \o <<"i">>
       ELSE getTokenText(ctx, "-") \o <<"i">>

\* complexNumber: '(' real del=(',' | 'e^') imaginary ')'
visitComplexNumber(ctx) ==
    LET real_ == getTypedRuleContext(ctx, "real", 0)
        imaginary_ == getTypedRuleContext(ctx, "imaginary", 0)
    IN IF real_.rule = "null" \/ imaginary_.rule = "null" \/ ctx.op = "" THEN TypeErrorNode
       ELSE Terminal("NUMBER", <<"(">> \o visitReal(real_)
                \o (IF ctx.op = "," THEN <<", ">> ELSE <<" e^">>)
                \o visitImaginary(imaginary_) \o <<")">>)

\* realNumber: real
visitRealNumber(ctx) ==
    LET real_ == getTypedRuleContext(ctx, "real", 0)
    IN IF real_.rule = "null" \/ visitReal(real_) = <<>> THEN TypeErrorNode
       ELSE Terminal("NUMBER", visitReal(real_))

\* a visit method that makes a terminal of the text of one token
visitToken(ctx, tokenType, type) ==
    IF getTokenText(ctx, tokenType) = <<>> THEN TypeErrorNode
    ELSE Terminal(type, getTokenText(ctx, tokenType))

\* a visitDocument that keeps the number of newlines around the component
visitDocumentCountingNewlines(ctx, depth) ==
    addSize(treeAddChild(Tree("DOCUMENT", 0),
                         Visit(getTypedRuleContext(ctx, "component", 0), depth)),
            Len(SelectSeq(ctx.children, LAMBDA c : c.rule = "TERMINAL" /\ c.alt = "NEWLINE")))

\* the characters of a block of text and of a binary string
Characters(lexeme) ==
    CASE lexeme = "\"\na\n\"" -> <<"\"", "\n", "a", "\n", "\"">>
      [] lexeme = "\"\n    a\n    \"" ->
            <<"\"", "\n", " ", " ", " ", " ", "a", "\n", " ", " ", " ", " ", "\"">>
      [] lexeme = "\"\n        a\n        \"" ->
            <<"\"", "\n", " ", " ", " ", " ", " ", " ", " ", " ", "a",
              "\n", " ", " ", " ", " ", " ", " ", " ", " ", "\"">>
      [] lexeme = "\"\n  a\n    \"" ->
            <<"\"", "\n", " ", " ", "a", "\n", " ", " ", " ", " ", "\"">>
      [] lexeme = "'\n    AB\n    '" ->
            <<"'", "\n", " ", " ", " ", " ", "A", "B", "\n", " ", " ", " ", " ", "'">>

\* ParsingVisitor.indentation
indentation == <<" ", " ", " ", " ">>

RECURSIVE getPadding(_)

\* ParsingVisitor.prototype.getPadding
getPadding(depth) ==
    IF depth = 0 THEN <<>> ELSE getPadding(depth - 1) \o indentation

RECURSIVE replace(_, _, _)

\* value.replace(new RegExp('\\n' + padding, 'g'), '\n') from the i-th
\* character on
replace(value, padding, i) ==
    IF i > Len(value) THEN <<>>
    ELSE IF /\ value[i] = "\n"
            /\ i + Len(padding) <= Len(value)
            /\ SubSeq(value, i + 1, i + Len(padding)) = padding
         THEN <<"\n">> \o replace(value, padding, i + Len(padding) + 1)
         ELSE <<value[i]>> \o replace(value, padding, i + 1)

\* binary: BINARY
ParsingVisitor_visitBinary(ctx, depth) ==
    LET value == Characters(getTokenText(ctx, "BINARY")[1])
        padding == getPadding(depth)
    IN Terminal("BINARY", replace(value, padding, 1))

\* newlineText: TEXT_BLOCK
visitNewlineText(ctx, depth) ==
    LET value == Characters(getTokenText(ctx, "TEXT_BLOCK")[1])
        padding == getPadding(depth)
    IN [Terminal("TEXT", replace(value, padding, 1)) EXCEPT !.size = 100]

\* document: the content of the document
visitDocument(ctx, depth) ==
    treeAddChild(Tree("DOCUMENT", 0), Visit(getTypedRuleContext(ctx, "component", 0), depth))

\* component: every child is visited and its result added
visitComponent(ctx, depth) ==
    visitEach(Tree("COMPONENT", 0), ctx.children, depth, 0)

\* structure: '[' collection ']'
visitStructure(ctx, depth) ==
    treeAddChild(Tree("STRUCTURE", 2), Visit(getTypedRuleContext(ctx, "composite", 0), depth))

\* parameters: '(' collection ')'
visitParameters(ctx, depth) ==
    treeAddChild(Tree("PARAMETERS", 2), Visit(getTypedRuleContext(ctx, "composite", 0), depth))

\* range: expression '..' expression
visitRange(ctx, depth) ==
    treeAddChild(treeAddChild(Tree("RANGE", 2),
        Visit(getTypedRuleContext(ctx, "expression", 0), depth)),
        Visit(getTypedRuleContext(ctx, "expression", 1), depth))

\* a visitList that counts the newlines of the newline-delimited form
visitListByForm(ctx, depth) ==
    IF ctx.alt # "EmptyArray"
    THEN visitEach(Tree("LIST", 0), getTypedRuleContexts(ctx, "expression"), depth + 1,
                   IF ctx.alt = "NewlineArray" THEN 3 ELSE 2)
    ELSE Tree("LIST", 0)

\* list: the three forms of an array convert to one LIST node
visitList(ctx, depth) ==
    IF ctx.alt # "EmptyArray"
    THEN visitEach(Tree("LIST", 0), getTypedRuleContexts(ctx, "expression"), depth + 1, 2)
    ELSE Tree("LIST", 0)

\* catalog: the three forms of a table convert to one CATALOG node
visitCatalog(ctx, depth) ==
    IF ctx.alt # "EmptyTable"
    THEN visitEach(Tree("CATALOG", 0), getTypedRuleContexts(ctx, "association"), depth + 1, 2)
    ELSE Tree("CATALOG", 0)

\* association: component ':' expression
visitAssociation(ctx, depth) ==
    treeAddChild(treeAddChild(Tree("ASSOCIATION", 2),
        Visit(getTypedRuleContext(ctx, "element", 0), depth)),
        Visit(getTypedRuleContext(ctx, "expression", 0), depth))

\* block: '{' procedure '}'
visitBlock(ctx, depth) ==
    LET procedure_ == Visit(getTypedRuleContext(ctx, "procedure", 0), depth)
        tree == treeAddChild(Tree("BLOCK", 2), procedure_)
    IN IF tree.type = "TypeError" THEN tree
       ELSE [tree EXCEPT !.children[1].size = 100]

\* procedure: the three forms convert to one PROCEDURE node
visitProcedure(ctx, depth) ==
    IF ctx.alt # "EmptyProcedure"
    THEN visitEach(Tree("PROCEDURE", 0), getTypedRuleContexts(ctx, "statement"), depth + 1, 2)
    ELSE Tree("PROCEDURE", 0)

\* ctx.mainClause(): the clause the statement starts with
mainClause(ctx) ==
    LET clauses == SelectSeq(ctx.children, LAMBDA c :
            c.rule \in {"evaluateClause", "ifClause", "returnClause"})
    IN IF clauses = <<>> THEN NullContext ELSE clauses[1]

\* statement: mainClause handleClause*
visitStatement(ctx, depth) ==
    visitEach(treeAddChild(Tree("STATEMENT", 0), Visit(mainClause(ctx), depth)),
              getTypedRuleContexts(ctx, "handleClause"), depth, 1)

\* handleClause: 'handle' symbol 'matching' expression 'with' block
visitHandleClause(ctx, depth) ==
    treeAddChild(treeAddChild(treeAddChild(Tree("HANDLE_CLAUSE", 100),
        Visit(getTypedRuleContext(ctx, "symbol", 0), depth)),
        Visit(getTypedRuleContext(ctx, "expression", 0), depth)),
        Visit(getTypedRuleContext(ctx, "block", 0), depth))

\* subcomponent: variable indices
visitSubcomponent(ctx, depth) ==
    treeAddChild(treeAddChild(Tree("SUBCOMPONENT", 0),
        Visit(getTypedRuleContext(ctx, "variable", 0), depth)),
        Visit(getTypedRuleContext(ctx, "indices", 0), depth))

\* evaluateClause: (recipient ':=')? expression
visitEvaluateClause(ctx, depth) ==
    LET symbol_ == getTypedRuleContext(ctx, "symbol", 0)
        variable_ == getTypedRuleContext(ctx, "variable", 0)
        recipient == IF symbol_.rule # "null" THEN Visit(symbol_, depth)
                     ELSE visitSubcomponent(ctx, depth)
        tree == IF symbol_.rule # "null" \/ variable_.rule # "null"
                THEN addSize(treeAddChild(Tree("EVALUATE_CLAUSE", 0), recipient), 4)
                ELSE Tree("EVALUATE_CLAUSE", 0)
    IN treeAddChild(tree, Visit(getTypedRuleContext(ctx, "expression", 0), depth))

RECURSIVE visitPairs(_, _, _, _, _)

\* for (i = 0; i < expressions.length; i++) { expressions[i], blocks[i] }
visitPairs(tree, expressions, blocks, i, depth) ==
    IF i > Len(expressions) THEN tree
    ELSE visitPairs(
            treeAddChild(treeAddChild(tree, Visit(expressions[i], depth)),
                         IF i <= Len(blocks) THEN Visit(blocks[i], depth) ELSE TypeErrorNode),
            expressions, blocks, i + 1, depth)

\* a visitIfClause that never adds the else block
visitIfClauseWithoutElse(ctx, depth) ==
    visitPairs(Tree("IF_CLAUSE", 100), getTypedRuleContexts(ctx, "expression"),
               getTypedRuleContexts(ctx, "block"), 1, depth)

\* ifClause: 'if' expression 'then' block ('else' 'if' expression 'then' block)*
\*           ('else' block)?
visitIfClause(ctx, depth) ==
    LET expressions == getTypedRuleContexts(ctx, "expression")
        blocks == getTypedRuleContexts(ctx, "block")
        hasElseBlock == Len(blocks) > Len(expressions)
        tree == visitPairs(Tree("IF_CLAUSE", 100), expressions, blocks, 1, depth)
    IN IF hasElseBlock THEN treeAddChild(tree, Visit(blocks[Len(blocks)], depth))
       ELSE tree

\* returnClause: 'return' expression?
visitReturnClause(ctx, depth) ==
    LET expression_ == getTypedRuleContext(ctx, "expression", 0)
    IN IF expression_.rule # "null"
       THEN addSize(treeAddChild(Tree("RETURN_CLAUSE", 6), Visit(expression_, depth)), 1)
       ELSE Tree("RETURN_CLAUSE", 6)

\* indices: '[' list ']'
visitIndices(ctx, depth) ==
    treeAddChild(Tree("INDICES", 2), Visit(getTypedRuleContext(ctx, "array", 0), depth))

\* an expression with one operand: dereference, complement, magnitude,
\* precedence and factorial
visitUnary(ctx, depth, type, size) ==
    treeAddChild(Tree(type, size), Visit(getTypedRuleContext(ctx, "expression", 0), depth))

\* inversionExpression: op=('-' | '/' | '*') expression
visitInversionExpression(ctx, depth) ==
    treeAddChild(setOperator(Tree("INVERSION_EXPRESSION", 1), ctx.op),
                 Visit(getTypedRuleContext(ctx, "expression", 0), depth))

\* a binary expression whose visit method does not set tree.operator
visitBinary(ctx, depth, type, size) ==
    treeAddChild(treeAddChild(Tree(type, size),
        Visit(getTypedRuleContext(ctx, "expression", 0), depth)),
        Visit(getTypedRuleContext(ctx, "expression", 1), depth))

\* a binary expression whose visit method sets tree.operator = ctx.op.text
visitBinaryWithOperator(ctx, depth, type, size) ==
    treeAddChild(setOperator(treeAddChild(Tree(type, size),
        Visit(getTypedRuleContext(ctx, "expression", 0), depth)), ctx.op),
        Visit(getTypedRuleContext(ctx, "expression", 1), depth))

\* arithmeticExpression: expression op=('*' | '/' | '//' | '+' | '-') expression
visitArithmeticExpression(ctx, depth) ==
    visitBinaryWithOperator(ctx, depth, "ARITHMETIC_EXPRESSION", 3)

\* comparisonExpression: expression op=('<' | '=' | '>' | 'is' | 'matches') expression
visitComparisonExpression(ctx, depth) ==
    visitBinaryWithOperator(ctx, depth, "COMPARISON_EXPRESSION", 9)

\* logicalExpression: expression op=('and' | 'sans' | 'xor' | 'or') expression
visitLogicalExpression(ctx, depth) ==
    visitBinaryWithOperator(ctx, depth, "LOGICAL_EXPRESSION", 6)

\* exponentialExpression: <assoc=right> expression '^' expression
visitExponentialExpression(ctx, depth) ==
    visitBinary(ctx, depth, "EXPONENTIAL_EXPRESSION", 3)

\* defaultExpression: expression '?' expression
visitDefaultExpression(ctx, depth) ==
    visitBinary(ctx, depth, "DEFAULT_EXPRESSION", 3)

\* functionExpression: function parameters
visitFunctionExpression(ctx, depth) ==
    LET invocation_ == getTypedRuleContext(ctx, "invocation", 0)
    IN treeAddChild(treeAddChild(Tree("FUNCTION_EXPRESSION", 0),
        visitToken(getTypedRuleContext(invocation_, "name", 0), "IDENTIFIER", "FUNCTION")),
        Visit(getTypedRuleContext(invocation_, "parameters", 0), depth))

\* messageExpression: expression '.' message parameters
visitMessageExpression(ctx, depth) ==
    LET invocation_ == getTypedRuleContext(ctx, "invocation", 0)
    IN treeAddChild(treeAddChild(treeAddChild(Tree("MESSAGE_EXPRESSION", 1),
        Visit(getTypedRuleContext(ctx, "expression", 0), depth)),
        visitToken(getTypedRuleContext(invocation_, "name", 0), "IDENTIFIER", "MESSAGE")),
        Visit(getTypedRuleContext(invocation_, "parameters", 0), depth))

\* subcomponentExpression: expression indices
visitSubcomponentExpression(ctx, depth) ==
    treeAddChild(treeAddChild(Tree("SUBCOMPONENT_EXPRESSION", 0),
        Visit(getTypedRuleContext(ctx, "expression", 0), depth)),
        Visit(getTypedRuleContext(ctx, "indices", 0), depth))

\* ctx.accept(visitor): the visit method of the context's class, or
\* visitChildren when the visitor has none
Visit(ctx, depth) ==
    IF ctx.rule \in {"null", "TERMINAL"} THEN TypeErrorNode
    ELSE CASE ctx.alt = "Document" -> visitDocument(ctx, depth)
      [] ctx.alt = "Component" -> visitComponent(ctx, depth)
      [] ctx.alt = "Structure" -> visitStructure(ctx, depth)
      [] ctx.alt = "Parameters" -> visitParameters(ctx, depth)
      [] ctx.alt = "Range" -> visitRange(ctx, depth)
      [] ctx.alt \in {"InlineArray", "NewlineArray", "EmptyArray"} -> visitList(ctx, depth)
      [] ctx.alt \in {"InlineTable", "NewlineTable", "EmptyTable"} -> visitCatalog(ctx, depth)
      [] ctx.alt = "Association" -> visitAssociation(ctx, depth)
      [] ctx.alt = "Block" -> visitBlock(ctx, depth)
      [] ctx.alt \in {"InlineProcedure", "NewlineProcedure", "EmptyProcedure"} ->
            visitProcedure(ctx, depth)
      [] ctx.alt = "Statement" -> visitStatement(ctx, depth)
      [] ctx.alt = "HandleClause" -> visitHandleClause(ctx, depth)
      [] ctx.alt = "EvaluateClause" -> visitEvaluateClause(ctx, depth)
      [] ctx.alt = "IfClause" -> visitIfClause(ctx, depth)
      [] ctx.alt = "ReturnClause" -> visitReturnClause(ctx, depth)
      [] ctx.alt = "Indices" -> visitIndices(ctx, depth)
      [] ctx.alt = "Variable" -> visitToken(ctx, "IDENTIFIER", "VARIABLE")
      [] ctx.alt = "Symbol" -> visitToken(ctx, "SYMBOL", "SYMBOL")
      [] ctx.alt = "Binary" -> ParsingVisitor_visitBinary(ctx, depth)
      [] ctx.alt = "NewlineText" -> visitNewlineText(ctx, depth)
      [] ctx.alt = "RealNumber" -> visitRealNumber(ctx)
      [] ctx.alt = "ComplexNumber" -> visitComplexNumber(ctx)
      [] ctx.alt = "PrecedenceExpression" -> visitUnary(ctx, depth, "PRECEDENCE_EXPRESSION", 2)
      [] ctx.alt = "DereferenceExpression" -> visitUnary(ctx, depth, "DEREFERENCE_EXPRESSION", 1)
      [] ctx.alt = "MagnitudeExpression" -> visitUnary(ctx, depth, "MAGNITUDE_EXPRESSION", 2)
      [] ctx.alt = "ComplementExpression" -> visitUnary(ctx, depth, "COMPLEMENT_EXPRESSION", 4)
      [] ctx.alt = "FactorialExpression" -> visitUnary(ctx, depth, "FACTORIAL_EXPRESSION", 1)
      [] ctx.alt = "InversionExpression" -> visitInversionExpression(ctx, depth)
      [] ctx.alt = "ExponentialExpression" -> visitExponentialExpression(ctx, depth)
      [] ctx.alt = "ArithmeticExpression" -> visitArithmeticExpression(ctx, depth)
      [] ctx.alt = "ComparisonExpression" -> visitComparisonExpression(ctx, depth)
      [] ctx.alt = "LogicalExpression" -> visitLogicalExpression(ctx, depth)
      [] ctx.alt = "DefaultExpression" -> visitDefaultExpression(ctx, depth)
      [] ctx.alt = "FunctionExpression" -> visitFunctionExpression(ctx, depth)
      [] ctx.alt = "MessageExpression" -> visitMessageExpression(ctx, depth)
      [] ctx.alt = "SubcomponentExpression" -> visitSubcomponentExpression(ctx, depth)
      [] OTHER -> visitChildren(ctx, depth)

\* convertParseTree: a new visitor (depth 0) walks the tree
convertParseTree(antlrTree) == Visit(antlrTree, 0)

\* ------------------------------------------------------------------------
\* TransformingVisitor: the JavaScript object of a parse tree.  The visitor
\* is written against the accessors literal, key and value; each resolves
\* to the child of the parser's context that plays the same role: the
\* literal of a document is the element, structure or block of a component,
\* its parameters are the parameters that follow that literal, a key is the
\* element of an association and a value is an expression.
\* ------------------------------------------------------------------------

\* an object of the objects module: its type, its value and its parameters
Object(type, value) == [type |-> type, value |-> value, parameters |-> <<>>]

\* the visitor's result before any method assigned it
Undefined == Object("undefined", <<>>)

\* throw new Error(message)
Error(message) == [type |-> "Error", value |-> <<message>>, parameters |-> <<>>]

ExpressionsError ==
    Error("TRANSFORMER: Bali expressions cannot be transformed into JavaScript objects.")

StatementsError ==
    Error("TRANSFORMER: Bali statements cannot be transformed into JavaScript objects.")

\* a property of undefined is read
TransformerTypeError == Error("TypeError")

\* the expressions whose visit method throws; componentExpression: expression
\* indices is the parser's SubcomponentExpression
ThrowingExpressions ==
    {"ArithmeticExpression", "ComparisonExpression", "ComplementExpression",
     "SubcomponentExpression", "DefaultExpression", "DereferenceExpression",
     "ExponentialExpression", "FactorialExpression", "FunctionExpression",
     "InversionExpression", "LogicalExpression", "MagnitudeExpression",
     "MessageExpression", "PrecedenceExpression"}

RECURSIVE Accept(_), acceptEach(_, _), acceptChildren(_, _)

\* for (i...) { values[i].accept(this); value.push(this.result); }
acceptEach(contexts, value) ==
    IF contexts = <<>> THEN Object("Array", value)
    ELSE LET item == Accept(Head(contexts))
         IN IF item.type = "Error" THEN item
            ELSE acceptEach(Tail(contexts), Append(value, item))

\* ParseTreeVisitor.visitChildren: every child accepts the visitor in turn
acceptChildren(contexts, last) ==
    IF contexts = <<>> THEN last
    ELSE LET item == Accept(Head(contexts))
         IN IF item.type = "Error" THEN item
            ELSE acceptChildren(Tail(contexts), item)

\* visitComposite, visitElement, visitLiteral: delegate to the concrete type
TransformingVisitor_visitChildren(ctx) ==
    acceptChildren(SelectSeq(ruleChildren(ctx), LAMBDA c : c.rule # "parameters"), Undefined)

\* literal.parameters = this.result, when there are parameters
setParameters(object_, parameters_) ==
    IF object_.type = "Error" \/ parameters_.rule = "null" THEN object_
    ELSE LET composite_ == Accept(parameters_)
         IN IF composite_.type = "Error" THEN composite_
            ELSE IF object_.type = "undefined" THEN TransformerTypeError
            ELSE [object_ EXCEPT !.parameters = <<composite_>>]

\* document: literal parameters?
TransformingVisitor_visitDocument(ctx) ==
    LET contexts == ruleChildren(ctx)
        literal_ == IF contexts = <<>> THEN NullContext ELSE contexts[1]
    IN IF literal_.rule = "null" THEN TransformerTypeError
       ELSE setParameters(Accept(literal_), getTypedRuleContext(literal_, "parameters", 0))

\* key: element parameters?
TransformingVisitor_visitKey(ctx) ==
    setParameters(TransformingVisitor_visitChildren(ctx), getTypedRuleContext(ctx, "parameters", 0))

\* structure: '[' composite ']' and parameters: '(' composite ')'
TransformingVisitor_visitStructure(ctx) ==
    LET composite_ == getTypedRuleContext(ctx, "composite", 0)
    IN IF composite_.rule = "null" THEN TransformerTypeError ELSE Accept(composite_)

\* range: value '..' value
TransformingVisitor_visitRange(ctx) ==
    LET firstValue == Accept(getTypedRuleContext(ctx, "expression", 0))
        lastValue == Accept(getTypedRuleContext(ctx, "expression", 1))
    IN IF firstValue.type = "Error" THEN firstValue
       ELSE IF lastValue.type = "Error" THEN lastValue
       ELSE Object("Range", <<firstValue, lastValue>>)

\* a visitArray that skips the items that cannot be transformed
visitArraySkippingErrors(ctx) ==
    LET values == SelectSeq(getTypedRuleContexts(ctx, "expression"),
                            LAMBDA c : Accept(c).type # "Error")
        value == IF ctx.alt # "EmptyArray" THEN acceptEach(values, <<>>) ELSE Object("Array", <<>>)
    IN IF value.type = "Error" THEN value ELSE Object(ctx.alt, value.value)

\* treat all arrays the same: the items' values in order
TransformingVisitor_visitArray(ctx) ==
    LET value == IF ctx.alt # "EmptyArray"
                 THEN acceptEach(getTypedRuleContexts(ctx, "expression"), <<>>)
                 ELSE Object("Array", <<>>)
    IN IF value.type = "Error" THEN value ELSE Object(ctx.alt, value.value)

\* treat all tables the same: the associations in order
TransformingVisitor_visitTable(ctx) ==
    LET value == IF ctx.alt # "EmptyTable"
                 THEN acceptEach(getTypedRuleContexts(ctx, "association"), <<>>)
                 ELSE Object("Array", <<>>)
    IN IF value.type = "Error" THEN value ELSE Object(ctx.alt, value.value)

\* association: key ':' value
TransformingVisitor_visitAssociation(ctx) ==
    LET key_ == getTypedRuleContext(ctx, "element", 0)
        key == IF key_.rule = "null" THEN TransformerTypeError
               ELSE TransformingVisitor_visitKey(key_)
        value == Accept(getTypedRuleContext(ctx, "expression", 0))
    IN IF key.type = "Error" THEN key
       ELSE IF value.type = "Error" THEN value
       ELSE Object("association", <<key, value>>)

\* variableReal: FLOAT and constantReal: sign='-'? con=('e' | 'pi' | 'phi')
TransformingVisitor_visitReal(ctx) ==
    IF ctx.alt = "VariableReal" THEN getTokenText(ctx, "FLOAT")
    ELSE getTokenText(ctx, "-") \o getTokenText(ctx, "CONSTANT")

\* imaginary: (real | sign='-')? 'i'
TransformingVisitor_visitImaginary(ctx) ==
    LET real_ == getTypedRuleContext(ctx, "real", 0)
    IN IF real_.rule # "null"
       THEN TransformingVisitor_visitReal(real_)
                \o (IF real_.alt = "ConstantReal" THEN <<" ">> ELSE <<>>) \o <<"i">>
       ELSE getTokenText(ctx, "-") \o <<"i">>

\* complexNumber: '(' real del=(',' | 'e^') imaginary ')'
TransformingVisitor_visitComplexNumber(ctx) ==
    LET real_ == getTypedRuleContext(ctx, "real", 0)
        imaginary_ == getTypedRuleContext(ctx, "imaginary", 0)
    IN IF real_.rule = "null" \/ imaginary_.rule = "null" \/ ctx.op = "" THEN TransformerTypeError
       ELSE Object("Complex", <<"(">> \o TransformingVisitor_visitReal(real_) \o <<ctx.op>>
                \o TransformingVisitor_visitImaginary(imaginary_) \o <<")">>)

\* realNumber: real
TransformingVisitor_visitRealNumber(ctx) ==
    LET real_ == getTypedRuleContext(ctx, "real", 0)
    IN IF real_.rule = "null" THEN TransformerTypeError
       ELSE Object("Complex", TransformingVisitor_visitReal(real_))

\* variableExpression: variable
TransformingVisitor_visitVariableExpression(ctx) == ExpressionsError

\* block: '{' statements '}'
TransformingVisitor_visitBlock(ctx) == StatementsError

\* ctx.accept(visitor): the visit method of the context's class
Accept(ctx) ==
    IF ctx.rule = "null" THEN TransformerTypeError
    ELSE IF ctx.rule = "TERMINAL" THEN Undefined
    ELSE CASE ctx.alt \in {"Document", "Component", "ComponentExpression"} ->
                TransformingVisitor_visitDocument(ctx)
      [] ctx.alt \in {"Element", "Composite"} -> TransformingVisitor_visitChildren(ctx)
      [] ctx.alt \in {"Structure", "Parameters"} -> TransformingVisitor_visitStructure(ctx)
      [] ctx.alt = "Range" -> TransformingVisitor_visitRange(ctx)
      [] ctx.alt \in {"InlineArray", "NewlineArray", "EmptyArray"} ->
            TransformingVisitor_visitArray(ctx)
      [] ctx.alt \in {"InlineTable", "NewlineTable", "EmptyTable"} ->
            TransformingVisitor_visitTable(ctx)
      [] ctx.alt = "Association" -> TransformingVisitor_visitAssociation(ctx)
      [] ctx.alt = "Symbol" -> Object("Symbol", getTokenText(ctx, "SYMBOL"))
      [] ctx.alt = "RealNumber" -> TransformingVisitor_visitRealNumber(ctx)
      [] ctx.alt = "ComplexNumber" -> TransformingVisitor_visitComplexNumber(ctx)
      [] ctx.alt = "VariableExpression" -> TransformingVisitor_visitVariableExpression(ctx)
      [] ctx.alt \in ThrowingExpressions -> ExpressionsError
      [] ctx.alt = "Block" -> TransformingVisitor_visitBlock(ctx)
      [] OTHER -> StatementsError

\* generateJavaScriptObject: a new visitor walks the tree
generateJavaScriptObject(parseTree) == Accept(parseTree)

\* ------------------------------------------------------------------------
\* The sources that are parsed
\* ------------------------------------------------------------------------

\* the longest chain of binary operators
MaxOperators == 2

\* the longest chain of postfix operators
MaxSuffixes == 2

\* the longest sequence of arbitrary tokens
MaxLen == 3

\* the most conditions of an if clause
MaxConditions == 2

\* the most handle clauses of a statement
MaxHandles == 2

BinaryOperators ==
    {"^", "?"} \cup ArithmeticOperators \cup ComparisonOperators \cup LogicalOperators

\* the operand at each position of a chain
Operands == <<"2", "3", "4", "5", "1">>

RECURSIVE Chains(_)

\* operand (operator operand)^n
Chains(n) ==
    IF n = 0 THEN {<<Operands[1]>>}
    ELSE {chain \o <<op, Operands[((n) % Len(Operands)) + 1]>> :
            chain \in Chains(n - 1), op \in BinaryOperators}

ChainSources == UNION {Chains(n) : n \in 0 .. MaxOperators}

Suffixes == {<<"!">>, <<"[", "2", "]">>, <<".", "m", "(", "3", ")">>}

RECURSIVE SuffixChains(_)

SuffixChains(n) ==
    IF n = 0 THEN {<<>>}
    ELSE {chain \o suffix : chain \in SuffixChains(n - 1), suffix \in Suffixes}

\* an operand with postfix operators, alone, as the exponent of a power and
\* as the operand of a prefix operator
PostfixSources ==
    {prefix \o <<"b">> \o chain :
        prefix \in {<<>>, <<"a", "^">>, <<"-">>, <<"not">>, <<"@">>},
        chain \in UNION {SuffixChains(n) : n \in 1 .. MaxSuffixes}}

ExampleSources ==
    {<<"a", "and", "b", "=", "c", "+", "d">>,
     <<"a", "?", "b", "or", "c">>,
     <<"a", "?", "b", "?", "c">>,
     <<"a", "-", "b", "-", "c">>,
     <<"a", "and", "b", "or", "c">>,
     <<"2", "^", "3", "^", "2">>,
     <<"a", "^", "b", "^", "c">>,
     <<"(", "2", "+", "3", ")", "*", "4">>,
     <<"|", "2", "-", "3", "|">>,
     <<"f", "(", "2", ")">>,
     <<"[", "2", ",", "3", "]">>,
     <<"[", "2", "..", "3", "]">>,
     <<"[", "$x", ":", "2", "]">>,
     <<"$x">>,
     <<"2", "+", "+", "3", "+", "+">>,
     <<"2", "&", "3", "&">>,
     <<"if", "then", "{", "}", ";", "if", "then", "{", "}">>,
     <<"return", "2", ";", "return", ";", ";">>,
     <<"{", "return", "2", "handle", "matching", "}", "}">>}

TokenAlphabet == {"2", "+", "&", "(", ")"}

RECURSIVE TokenSequences(_)

TokenSequences(n) ==
    IF n = 0 THEN {<<>>}
    ELSE {tokens \o <<t>> : tokens \in TokenSequences(n - 1), t \in TokenAlphabet}

ArbitrarySources == UNION {TokenSequences(n) : n \in 0 .. MaxLen}

EmptyBlock == <<"{", "}">>

RECURSIVE ElseIfs(_)

\* ('else' 'if' expression 'then' block)^n
ElseIfs(n) ==
    IF n = 0 THEN <<>>
    ELSE ElseIfs(n - 1) \o <<"else", "if", "b", "then">> \o EmptyBlock

IfClauses ==
    {<<"if", "a", "then">> \o EmptyBlock \o ElseIfs(n - 1) \o else :
        n \in 1 .. MaxConditions, else \in {<<>>, <<"else">> \o EmptyBlock}}

MainClauses ==
    IfClauses \cup {<<"return", "2">>, <<"return">>, <<"$x", ":=", "2">>,
                    <<"a", "[", "2", "]", ":=", "3">>, <<"2", "+", "3">>}

RECURSIVE HandleClauses(_)

\* ('handle' symbol 'matching' expression 'with' block)^n
HandleClauses(n) ==
    IF n = 0 THEN <<>>
    ELSE HandleClauses(n - 1) \o <<"handle", "$y", "matching", "4", "with">> \o EmptyBlock

Statements ==
    {main \o HandleClauses(n) \o finish :
        main \in MainClauses, n \in 0 .. MaxHandles,
        finish \in {<<>>, <<"finish", "with">> \o EmptyBlock}}

\* each statement as a procedure and as the block of a component
StatementSources ==
    Statements \cup {<<"{">> \o text \o <<"}">> : text \in Statements}

\* the most items of an array or of a table
MaxItems == 3

RECURSIVE ItemLists(_, _)

\* the sequences of n items
ItemLists(items, n) ==
    IF n = 0 THEN {<<>>}
    ELSE {list \o <<item>> : list \in ItemLists(items, n - 1), item \in items}

\* the expressions of an array and the associations of a table
ArrayItems == {<<"2">>, <<"$x">>}

TableItems == {<<"$x", ":", "2">>, <<"$y", ":", "3">>}

CompositeItems ==
    UNION {ItemLists(ArrayItems, n) \cup ItemLists(TableItems, n) : n \in 1 .. MaxItems}

RECURSIVE Delimited(_, _)

\* item delimiter item ... delimiter item
Delimited(items, delimiter) ==
    IF Len(items) = 1 THEN items[1]
    ELSE Delimited(SubSeq(items, 1, Len(items) - 1), delimiter)
            \o <<delimiter>> \o items[Len(items)]

RECURSIVE Terminated(_, _)

\* item terminator ... item terminator
Terminated(items, terminator) ==
    IF items = <<>> THEN <<>>
    ELSE Terminated(SubSeq(items, 1, Len(items) - 1), terminator)
            \o items[Len(items)] \o <<terminator>>

\* [item, item, item]
InlineComposite(items) == <<"[">> \o Delimited(items, ",") \o <<"]">>

\* [ NEWLINE item NEWLINE item NEWLINE item NEWLINE ]
NewlineComposite(items) == <<"[", "\n">> \o Terminated(items, "\n") \o <<"]">>

EmptyArraySource == <<"[", "]">>

EmptyTableSource == <<"[", ":", "]">>

CompositeSources ==
    {InlineComposite(items) : items \in CompositeItems}
        \cup {NewlineComposite(items) : items \in CompositeItems}
        \cup {EmptyArraySource, EmptyTableSource}

\* an expression of each kind that the transformer rejects
RejectedExpressions ==
    {<<"a">>, <<"2", "+", "3">>, <<"2", "<", "3">>, <<"2", "and", "3">>,
     <<"a", ".", "m", "(", ")">>, <<"@", "$x">>, <<"-", "a">>, <<"not", "2">>,
     <<"|", "2", "|">>, <<"(", "a", ")">>, <<"f", "(", "2", ")">>,
     <<"a", "[", "2", "]">>}

\* the literals: elements, with and without parameters, and blocks
Literals ==
    {<<"2">>, <<"$x">>, <<"(", "2", ",", "3", "i", ")">>, <<"$x", "(", "2", ")">>,
     <<"{", "}">>}

\* the places of a value in a literal structure or in its parameters
Places(value) ==
    {<<"[", "2", ",">> \o value \o <<"]">>,
     <<"[", "$x", ":">> \o value \o <<"]">>,
     <<"[">> \o value \o <<"..", "3", "]">>,
     <<"$x", "(">> \o value \o <<")">>,
     <<"[", "2", "]", "(">> \o value \o <<")">>}

\* the places of a value in a table, in a range and in parameters
InnerPlaces(value) ==
    {<<"[", "$x", ":">> \o value \o <<"]">>,
     <<"[">> \o value \o <<"..", "3", "]">>,
     <<"$x", "(">> \o value \o <<")">>}

\* the place of a value in the parameters of the key of an association
KeyPlace(value) == <<"[", "$x", "(">> \o value \o <<")", ":", "2", "]">>

\* the values placed two structures deep
DeepValues == {<<"a">>, <<"2", "+", "3">>, <<"2">>, <<"{", "}">>}

\* each expression and each literal at the top, in a structure or in its
\* parameters, and the deep values in the parameters of a key and in a table
\* that holds a structure
ValueSources ==
    LET values == RejectedExpressions \cup Literals
        placed == UNION {Places(value) : value \in values}
        inner == UNION {InnerPlaces(value) : value \in DeepValues}
    IN values \cup placed \cup {KeyPlace(value) : value \in DeepValues}
        \cup {<<"[", "$x", ":">> \o value \o <<"]">> : value \in inner}

\* the literal arrays of ArrayItems
ArraySources ==
    {InlineComposite(items) : items \in UNION {ItemLists(ArrayItems, n) : n \in 1 .. MaxItems}}

\* the sources whose parse trees are transformed
TransformerSources == ValueSources \cup ArraySources

Sources ==
    ChainSources \cup PostfixSources \cup ExampleSources \cup ArbitrarySources
        \cup StatementSources \cup CompositeSources

\* ------------------------------------------------------------------------
\* The queue (src/collections/Queue.js).  An item is a component; the
\* client gives each item it adds the number of the addition, so that two
\* items are told apart as two objects are.
\* ------------------------------------------------------------------------

\* this.capacity = 1024
Capacity == 1024

\* the additions a client makes
MaxAdds == 4

\* the complexities of the items a client adds
Complexities == {1, 3}

\* Composite.call(this, type, parameters): the complexity of a composite
\* before its class adds that of its delimiters
Composite(type) == [type |-> type, complexity |-> 0]

\* Composite.asComponent(item) of an item that is a component
asComponent(item) == item

\* no item: the value of a call that returns nothing or throws
NoItem == [id |-> 0, complexity |-> 0]

\* function Queue(parameters)
Queue ==
    [capacity |-> Capacity, array |-> <<>>,
     complexity |-> Composite("QUEUE").complexity + 2]

\* how a call of a method ended: the queue after it, "returned" or "thrown",
\* and what it returned
Return(this, item, items, size) ==
    [this |-> this, outcome |-> "returned", item |-> item, array |-> items, size |-> size]

Throw(this) ==
    [this |-> this, outcome |-> "thrown", item |-> NoItem, array |-> <<>>, size |-> 0]

\* Queue.prototype.getSize
Queue_getSize(this) == Len(this.array)

\* Queue.prototype.toArray
Queue_toArray(this) == this.array

\* an addItem that pushes the item to the front of the array
addItemAtFront(this, item) ==
    LET asItem == asComponent(item)
        pushed == [this EXCEPT !.array = <<asItem>> \o @,
                               !.complexity = @ + asItem.complexity]
    IN IF Len(this.array) < this.capacity
       THEN Return(IF Queue_getSize(pushed) > 1
                   THEN [pushed EXCEPT !.complexity = @ + 2] ELSE pushed,
                   NoItem, <<>>, 0)
       ELSE Throw(this)

\* an addItem that does not look at the capacity
addItemBeyondCapacity(this, item) ==
    LET asItem == asComponent(item)
        pushed == [this EXCEPT !.array = Append(@, asItem),
                               !.complexity = @ + asItem.complexity]
    IN Return(IF Queue_getSize(pushed) > 1
              THEN [pushed EXCEPT !.complexity = @ + 2] ELSE pushed,
              NoItem, <<>>, 0)

\* Queue.prototype.addItem
Queue_addItem(this, item) ==
    LET asItem == asComponent(item)
        pushed == [this EXCEPT !.array = Append(@, asItem),
                               !.complexity = @ + asItem.complexity]
    IN IF Len(this.array) < this.capacity
       THEN Return(IF Queue_getSize(pushed) > 1
                   THEN [pushed EXCEPT !.complexity = @ + 2] ELSE pushed,
                   NoItem, <<>>, 0)
       ELSE Throw(this)

\* a removeItem that returns no item, and does not throw, on an empty queue
removeItemQuietly(this) ==
    LET size == Len(this.array)
        item == this.array[1]
        spliced == [this EXCEPT !.array = Tail(@), !.complexity = @ - item.complexity]
    IN IF size > 0
       THEN Return(IF Queue_getSize(spliced) > 0
                   THEN [spliced EXCEPT !.complexity = @ - 2] ELSE spliced,
                   item, <<>>, 0)
       ELSE Return(this, NoItem, <<>>, 0)

\* Queue.prototype.removeItem
Queue_removeItem(this) ==
    LET size == Len(this.array)
        item == this.array[1]
        spliced == [this EXCEPT !.array = Tail(@), !.complexity = @ - item.complexity]
    IN IF size > 0
       THEN Return(IF Queue_getSize(spliced) > 0
                   THEN [spliced EXCEPT !.complexity = @ - 2] ELSE spliced,
                   item, <<>>, 0)
       ELSE Throw(this)

\* Queue.prototype.firstItem
Queue_firstItem(this) ==
    LET size == Len(this.array)
    IN IF size > 0 THEN Return(this, this.array[1], <<>>, 0)
       ELSE Throw(this)

\* Queue.prototype.removeAll
Queue_removeAll(this) ==
    LET size == Queue_getSize(this)
        reduced == IF size > 1 THEN [this EXCEPT !.complexity = @ - (size - 1) * 2] ELSE this
    IN Return([reduced EXCEPT !.array = <<>>], NoItem, <<>>, 0)

\* a collection of the objects module: the name of its constructor and
\* its items in the order in which its iterator goes forward
Collection(type, items) == [type |-> type, items |-> items]

\* the items as an iterator gives them that starts at the end and goes back
Backwards(items) == [i \in 1 .. Len(items) |-> items[Len(items) + 1 - i]]

RECURSIVE addItems(_, _)

\* items.forEach(function(item) { queue.addItem(item); }), and the same
\* loop over an iterator: the items are added one after the other and an
\* addItem that throws ends the loop.  The loop over the items is the loop
\* over their first half followed by the loop over their second half.
addItems(r, items) ==
    IF r.outcome = "thrown" \/ items = <<>> THEN r
    ELSE IF Len(items) = 1 THEN Queue_addItem(r.this, items[1])
    ELSE LET half == Len(items) \div 2
         IN addItems(addItems(r, SubSeq(items, 1, half)),
                     SubSeq(items, half + 1, Len(items)))

\* Queue.fromCollection: the new queue in this, or thrown
Queue_fromCollection(collection) ==
    LET queue_ == Queue
        type == collection.type
    IN CASE type = "Array" -> addItems(Return(queue_, NoItem, <<>>, 0), collection.items)
         [] type \in {"List", "Queue", "Set"} ->
                addItems(Return(queue_, NoItem, <<>>, 0), collection.items)
         [] type = "Stack" ->
                addItems(Return(queue_, NoItem, <<>>, 0), Backwards(collection.items))
         [] OTHER -> Throw(queue_)

\* the client has constructed a queue and has called no method of it
NoCall == [method |-> "none", outcome |-> "none", item |-> NoItem, array |-> <<>>, size |-> 0]

\* ------------------------------------------------------------------------
\* Collection (src/abstractions/Collection.js): the methods a queue
\* inherits.  The iterator of a queue goes over its array from the first
\* item to the last, and two components are equal when they are alike.
\* ------------------------------------------------------------------------

\* candidate.isEqualTo(item)
isEqualTo(candidate, item) == candidate = item

\* Collection.prototype.getIndex
getIndex(this, item) ==
    LET found == {i \in 1 .. Len(this.array) : isEqualTo(this.array[i], item)}
    IN IF found = {} THEN 0 ELSE CHOOSE i \in found : \A j \in found : i <= j

\* Collection.prototype.containsItem
containsItem(this, item) ==
    LET index == getIndex(this, item)
    IN index > 0

RECURSIVE forEachContains(_, _, _)

\* items.forEach(function(item) { result = this.containsItem(item);
\*                                if (...) return; }, this):
\* the return ends the call of the function for one item, and forEach goes
\* on to the next item
forEachContains(this, items, answer) ==
    IF items = <<>> THEN answer
    ELSE forEachContains(this, Tail(items), containsItem(this, Head(items)))

RECURSIVE whileContains(_, _, _, _)

\* while (iterator.hasNext()) { result = this.containsItem(iterator.getNext());
\*                               if (result is stop) break; }
whileContains(this, items, answer, stop) ==
    IF items = <<>> THEN answer
    ELSE LET next == containsItem(this, Head(items))
         IN IF next = stop THEN next ELSE whileContains(this, Tail(items), next, stop)

\* the items argument of containsAny and containsAll: undefined, an array
\* or a sequential component
Argument(form, items) == [form |-> form, items |-> items]

\* Collection.prototype.containsAny
Collection_containsAny(this, items) ==
    LET answer == FALSE
    IN IF items.form = "Array" THEN forEachContains(this, items.items, answer)
       ELSE IF items.form = "Sequential" THEN whileContains(this, items.items, answer, TRUE)
       ELSE answer

\* Collection.prototype.containsAll
Collection_containsAll(this, items) ==
    LET answer == FALSE
    IN IF items.form = "Array" THEN forEachContains(this, items.items, answer)
       ELSE IF items.form = "Sequential" THEN whileContains(this, items.items, answer, FALSE)
       ELSE answer

\* neither containsAny nor containsAll was called
NoQuestion == [method |-> "none", items |-> Argument("Undefined", <<>>), result |-> FALSE]

\* ------------------------------------------------------------------------
\* Version (the second file of src/abstractions/Collection.js).  Arrays are
\* objects: the arrays a version and its client refer to are kept by name,
\* "given" for the array the client passed to the constructor, "own" for
\* an array that only the version refers to, "returned" for the array the
\* last getValue returned and "levels" for the array nextVersion works on.
\* A version is the name of the array its getValue reads.
\* ------------------------------------------------------------------------

\* no array
NoArrays == [given |-> <<>>, own |-> <<>>, returned |-> <<>>, levels |-> <<>>]

\* Array.prototype.indexOf, counted from 0, -1 if there is none
indexOf(elements, x) ==
    LET found == {i \in 1 .. Len(elements) : elements[i] = x}
    IN IF found = {} THEN 0 - 1 ELSE (CHOOSE i \in found : \A j \in found : i <= j) - 1

\* Array.prototype.splice(start) with start >= 0: the elements from start
\* on are removed
splice(elements, start) == SubSeq(elements, 1, IF start < Len(elements) THEN start ELSE Len(elements))

\* new Version(value): value is the name of the array that was passed, or
\* "undefined".  The version keeps the array itself, and [1] is a new array.
Version(value, arrays) ==
    LET heap == IF value = "undefined" THEN [arrays EXCEPT !.own = <<1>>] ELSE arrays
        value_ == IF value = "undefined" THEN "own" ELSE value
    IN [outcome |-> IF indexOf(heap[value_], 0) >= 0 THEN "thrown" ELSE "returned",
        value |-> value_, arrays |-> heap]

\* this.getValue(): value.slice(), a new array
Version_getValue(this, arrays) == arrays[this]

\* Version.prototype.isEmpty
Version_isEmpty(this, arrays) == FALSE

\* Version.prototype.getSize
Version_getSize(this, arrays) == Len(Version_getValue(this, arrays))

\* levels[index]++; levels.splice(index + 1): with the index -1 of a
\* version without levels the increment sets no element of the array
incremented(levels, index) ==
    splice(IF index >= 0 THEN [levels EXCEPT ![index + 1] = @ + 1] ELSE levels, index + 1)

\* a nextVersion that keeps the levels after the one it increments
nextVersionKeepingLevels(this, level, arrays) ==
    LET levels == Version_getValue(this, arrays)
        index == IF level = <<>> \/ level = <<0>> THEN Len(levels) - 1 ELSE level[1] - 1
        next == IF index < Len(levels)
                THEN IF index >= 0 THEN [levels EXCEPT ![index + 1] = @ + 1] ELSE levels
                ELSE Append(levels, 1)
    IN Version("levels", [arrays EXCEPT !.levels = next])

\* Version.prototype.nextVersion: level is <<>> when the call has no
\* argument and the number in a tuple when it has one
Version_nextVersion(this, level, arrays) ==
    LET levels == Version_getValue(this, arrays)
        index == IF level = <<>> \/ level = <<0>> THEN Len(levels) - 1 ELSE level[1] - 1
        next == IF index < Len(levels) THEN incremented(levels, index)
                ELSE Append(levels, 1)
    IN Version("levels", [arrays EXCEPT !.levels = next])

\* no method of the version was called
NoVersionCall ==
    [method |-> "none", outcome |-> "none", level |-> <<>>,
     before |-> <<>>, after |-> <<>>, next |-> <<>>, size |-> 0, empty |-> FALSE]

\* the client has created no version
NoVersion ==
    [exists |-> FALSE, value |-> "own", arrays |-> NoArrays, constructed |-> <<>>,
     call |-> NoVersionCall]

QueueConstructed ==
    /\ queue = Queue
    /\ called = NoCall
    /\ history = [added |-> 0, left |-> {}]
    /\ asked = NoQuestion
    /\ version = NoVersion

\* ------------------------------------------------------------------------
\* The lexer (grammar/BaliTokens.g4).  An input is a sequence of characters.
\* The token rules are run as the ANTLR lexer runs them: a list of threads,
\* ordered by rule and by the priority of the alternatives, is advanced one
\* character at a time, the longest match wins and, among the rules that
\* match the same characters, the one declared first.  The rules of the
\* grammar whose tokens begin with a character outside Alphabet (SYMBOL,
\* FRACTION, CONSTANT, FLOAT, MOMENT, DURATION, RESOURCE, VERSION, BINARY)
\* are left out.
\* ------------------------------------------------------------------------

QUOTE == "\""

BACKSLASH == "\\"

LF == "\n"

CR == "\r"

\* the characters of the inputs
Alphabet == {QUOTE, BACKSLASH, LF, " ", "a", "^", "#", "!"}

Digits == {"0", "1", "2", "3", "4", "5", "6", "7", "8", "9"}

LowerCase ==
    {"a", "b", "c", "d", "e", "f", "g", "h", "i", "j", "k", "l", "m",
     "n", "o", "p", "q", "r", "s", "t", "u", "v", "w", "x", "y", "z"}

UpperCase ==
    {"A", "B", "C", "D", "E", "F", "G", "H", "I", "J", "K", "L", "M",
     "N", "O", "P", "Q", "R", "S", "T", "U", "V", "W", "X", "Y", "Z"}

\* fragment BASE16
BASE16 == Digits \cup {"A", "B", "C", "D", "E", "F"}

\* fragment BASE32
BASE32 == Digits \cup (UpperCase \ {"E", "I", "O", "U"})

\* SPACE: ('\t'..'\r' | ' ')
SpaceCharacters == {"\t", LF, "\f", CR, " "}

\* the letters that follow the backslash of an ESCAPE, 'u' apart
EscapeLetters == {"b", "f", "r", "n", "t", QUOTE, BACKSLASH}

\* the tokens that the parser grammar defines by a literal; the lexer tries
\* them before the rules of BaliTokens
LiteralNames ==
    <<<<"[">>, <<"]">>, <<"(">>, <<")">>,
      <<".", ".">>, <<",">>, <<":">>, <<"{">>,
      <<"}">>, <<";">>, <<"h", "a", "n", "d", "l", "e">>, <<"m", "a", "t", "c", "h", "i", "n", "g">>,
      <<"w", "i", "t", "h">>, <<"f", "i", "n", "i", "s", "h">>, <<":", "=">>, <<"c", "h", "e", "c", "k", "o", "u", "t">>,
      <<"f", "r", "o", "m">>, <<"s", "a", "v", "e">>, <<"t", "o">>, <<"d", "i", "s", "c", "a", "r", "d">>,
      <<"c", "o", "m", "m", "i", "t">>, <<"p", "u", "b", "l", "i", "s", "h">>, <<"q", "u", "e", "u", "e">>, <<"o", "n">>,
      <<"w", "a", "i", "t">>, <<"f", "o", "r">>, <<"i", "f">>, <<"t", "h", "e", "n">>,
      <<"e", "l", "s", "e">>, <<"s", "e", "l", "e", "c", "t">>, <<"d", "o">>, <<"w", "h", "i", "l", "e">>,
      <<"e", "a", "c", "h">>, <<"i", "n">>, <<"c", "o", "n", "t", "i", "n", "u", "e">>, <<"b", "r", "e", "a", "k">>,
      <<"r", "e", "t", "u", "r", "n">>, <<"t", "h", "r", "o", "w">>, <<"@">>, <<".">>,
      <<"!">>, <<"^">>, <<"-">>, <<"/">>,
      <<"*">>, <<"/", "/">>, <<"+">>, <<"|">>,
      <<"<">>, <<"=">>, <<">">>, <<"i", "s">>,
      <<"m", "a", "t", "c", "h", "e", "s">>, <<"n", "o", "t">>, <<"a", "n", "d">>, <<"s", "a", "n", "s">>,
      <<"x", "o", "r">>, <<"o", "r">>, <<"?">>, <<"i">>,
      <<"u", "n", "d", "e", "f", "i", "n", "e", "d">>, <<"i", "n", "f", "i", "n", "i", "t", "y">>, <<"e", "^">>, <<"%">>,
      <<"t", "r", "u", "e">>, <<"f", "a", "l", "s", "e">>, <<"n", "o", "n", "e">>, <<"a", "n", "y">>>>

\* token rules that try TEXT before TEXT_BLOCK
TokenRulesTextFirst == <<"SHELL", "TAG", "TEXT", "TEXT_BLOCK", "IDENTIFIER", "NEWLINE", "SPACE">>

\* the token rules in the order of their declaration
TokenRules == <<"SHELL", "TAG", "TEXT_BLOCK", "TEXT", "IDENTIFIER", "NEWLINE", "SPACE">>

\* a thread of the lexer: the rule it runs and the state it is in
Thread(rule, state) == [rule |-> rule, state |-> state]

\* the states in which a rule starts
StartStates(rule) ==
    CASE rule = "SHELL" -> <<"shell^">>
      [] rule = "TAG" -> <<"tag#">>
      [] rule = "TEXT_BLOCK" -> <<"blockOpen">>
      [] rule = "TEXT" -> <<"textOpen">>
      [] rule = "IDENTIFIER" -> <<"idFirst">>
      [] rule = "NEWLINE" -> <<"newlineCR", "newlineLF">>
      [] rule = "SPACE" -> <<"space">>

\* LINE: CHARACTER*? NEWLINE, the NEWLINE that ends the loop first
LineStates == <<"shellCR", "shellLF", "shellCHARACTER">>

\* CHARACTER*? NEWLINE SPACE* '"' of TEXT_BLOCK
BlockBodyStates == <<"blockCR", "blockLF", "blockCHARACTER">>

BlockEndStates == <<"blockSPACE", "blockClose">>

\* (ESCAPE | CHARACTER)*? '"' of TEXT, the '"' that ends the loop first
TextBodyStates == <<"textClose", "textESCAPE", "textCHARACTER">>

\* the states a thread is in after a non-greedy loop was reached
PassedThroughNonGreedyDecision ==
    {"shellCR", "shellLF", "shellCHARACTER",
     "blockCR", "blockLF", "blockCHARACTER", "blockSPACE", "blockClose",
     "textClose", "textESCAPE", "textCHARACTER", "textLETTER", "textBASE16"}

\* the states a thread of a rule of BaliTokens reaches with a character,
\* in the order of their priority; "accept" is the end of the rule
Targets(state, c) ==
    CASE state = "shell^" -> IF c = "^" THEN <<"shell#">> ELSE <<>>
      [] state = "shell#" -> IF c = "#" THEN <<"shell!">> ELSE <<>>
      [] state = "shell!" -> IF c = "!" THEN LineStates ELSE <<>>
      [] state = "shellCHARACTER" -> LineStates
      [] state = "shellCR" -> IF c = CR THEN <<"shellLF">> ELSE <<>>
      [] state = "shellLF" -> IF c = LF THEN <<"accept">> ELSE <<>>
      [] state = "tag#" -> IF c = "#" THEN <<"tagBASE32", "accept">> ELSE <<>>
      [] state = "tagBASE32" -> IF c \in BASE32 THEN <<"tagBASE32", "accept">> ELSE <<>>
      [] state = "blockOpen" -> IF c = QUOTE THEN <<"blockFirstCR", "blockFirstLF">> ELSE <<>>
      [] state = "blockFirstCR" -> IF c = CR THEN <<"blockFirstLF">> ELSE <<>>
      [] state = "blockFirstLF" -> IF c = LF THEN BlockBodyStates ELSE <<>>
      [] state = "blockCHARACTER" -> BlockBodyStates
      [] state = "blockCR" -> IF c = CR THEN <<"blockLF">> ELSE <<>>
      [] state = "blockLF" -> IF c = LF THEN BlockEndStates ELSE <<>>
      [] state = "blockSPACE" -> IF c \in SpaceCharacters THEN BlockEndStates ELSE <<>>
      [] state = "blockClose" -> IF c = QUOTE THEN <<"accept">> ELSE <<>>
      [] state = "textOpen" -> IF c = QUOTE THEN TextBodyStates ELSE <<>>
      [] state = "textClose" -> IF c = QUOTE THEN <<"accept">> ELSE <<>>
      [] state = "textESCAPE" -> IF c = BACKSLASH THEN <<"textLETTER">> ELSE <<>>
      [] state = "textLETTER" -> IF c \in EscapeLetters THEN TextBodyStates
                                 ELSE IF c = "u" THEN <<"textBASE16">> ELSE <<>>
      [] state = "textBASE16" -> IF c \in BASE16 THEN <<"textBASE16">> \o TextBodyStates ELSE <<>>
      [] state = "textCHARACTER" -> TextBodyStates
      [] state = "idFirst" -> IF c \in LowerCase \cup UpperCase
                              THEN <<"idNext", "accept">> ELSE <<>>
      [] state = "idNext" -> IF c \in LowerCase \cup UpperCase \cup Digits
                             THEN <<"idNext", "accept">> ELSE <<>>
      [] state = "newlineCR" -> IF c = CR THEN <<"newlineLF">> ELSE <<>>
      [] state = "newlineLF" -> IF c = LF THEN <<"accept">> ELSE <<>>
      [] state = "space" -> IF c \in SpaceCharacters THEN <<"accept">> ELSE <<>>
      [] state = "accept" -> <<>>

\* the threads a thread becomes with a character
Successors(thread, c) ==
    LET targets == Targets(thread.state, c)
    IN [i \in 1 .. Len(targets) |-> Thread(thread.rule, targets[i])]

RECURSIVE addAll(_, _)

\* ATNConfigSet.add of each thread: a thread the list holds is not added
addAll(reach, threads) ==
    IF threads = <<>> THEN reach
    ELSE addAll(IF \E i \in 1 .. Len(reach) : reach[i] = Head(threads)
                THEN reach ELSE Append(reach, Head(threads)),
                Tail(threads))

RECURSIVE getReachableConfigSet(_, _, _, _)

\* LexerATNSimulator.getReachableConfigSet: the threads after a character.
\* Once a thread of a rule has reached the end of the rule, the threads of
\* that rule that follow it and that have passed a non-greedy loop are
\* dropped.  skipAlt is the thread that reached the end.
getReachableConfigSet(closure, reach, c, skipAlt) ==
    IF closure = <<>> THEN reach
    ELSE LET thread == Head(closure)
             skipped == /\ skipAlt.rule = thread.rule
                        /\ thread.state \in PassedThroughNonGreedyDecision
             successors == Successors(thread, c)
             accepted == \E i \in 1 .. Len(successors) : successors[i].state = "accept"
         IN IF skipped THEN getReachableConfigSet(Tail(closure), reach, c, skipAlt)
            ELSE getReachableConfigSet(Tail(closure), addAll(reach, successors), c,
                                       IF accepted THEN thread ELSE skipAlt)

\* no token
NoToken == [type |-> "none", literal |-> 0, start |-> 0, stop |-> 0]

\* the first thread of a list that has reached the end of its rule
firstConfigWithRuleStopState(reach, start, stop, prevAccept) ==
    LET stopped == {i \in 1 .. Len(reach) : reach[i].state = "accept"}
        first == reach[CHOOSE i \in stopped : \A j \in stopped : i <= j]
    IN IF stopped = {} THEN prevAccept
       ELSE [type |-> first.rule, literal |-> 0, start |-> start, stop |-> stop]

RECURSIVE execATN(_, _, _, _, _)

\* LexerATNSimulator.execATN: characters are read for as long as a thread
\* is alive, and the last token a thread ended is the match
execATN(input, start, index, closure, prevAccept) ==
    IF index > Len(input) THEN prevAccept
    ELSE LET reach == getReachableConfigSet(closure, <<>>, input[index], Thread("none", "none"))
         IN IF reach = <<>> THEN prevAccept
            ELSE execATN(input, start, index + 1, reach,
                         firstConfigWithRuleStopState(reach, start, index, prevAccept))

RECURSIVE startThreads(_, _)

\* the threads of the rules of a list, each in its start states
startThreads(rules, k) ==
    IF k > Len(rules) THEN <<>>
    ELSE [i \in 1 .. Len(StartStates(rules[k])) |-> Thread(rules[k], StartStates(rules[k])[i])]
            \o startThreads(rules, k + 1)

\* the start state of the rules of BaliTokens
computeStartState == startThreads(TokenRules, 1)

\* the longest literal that the input holds at a position, the one the
\* parser grammar names first if two are as long
matchLiteral(input, start) ==
    LET held == {k \in 1 .. Len(LiteralNames) :
                    /\ start + Len(LiteralNames[k]) - 1 <= Len(input)
                    /\ SubSeq(input, start, start + Len(LiteralNames[k]) - 1) = LiteralNames[k]}
        longest == CHOOSE k \in held : \A j \in held :
                    \/ Len(LiteralNames[k]) > Len(LiteralNames[j])
                    \/ Len(LiteralNames[k]) = Len(LiteralNames[j]) /\ k <= j
    IN IF held = {} THEN NoToken
       ELSE [type |-> "LITERAL", literal |-> longest, start |-> start,
             stop |-> start + Len(LiteralNames[longest]) - 1]

\* LexerATNSimulator.match: the token that starts at a position of the
\* input.  The literals come before the rules of BaliTokens, so that a
\* literal wins over a rule that matches the same characters.
matchToken(input, start) ==
    LET literal == matchLiteral(input, start)
        token == execATN(input, start, start, computeStartState, NoToken)
    IN IF literal # NoToken /\ literal.stop >= token.stop THEN literal ELSE token

\* a lexer over an input
Lexer(input) == [input |-> input, index |-> 1, tokens |-> <<>>, status |-> "ok"]

\* Lexer.nextToken: the next token is added to the tokens; when no rule
\* matches at the position, the recover of the lexer (part_001 214) throws
Lexer_nextToken(this) ==
    LET token == matchToken(this.input, this.index)
    IN IF token = NoToken THEN [this EXCEPT !.status = "error"]
       ELSE [this EXCEPT !.tokens = Append(@, token), !.index = token.stop + 1]

\* the lexer is not used
NoLexer == lexer = Lexer(<<>>)

\* ------------------------------------------------------------------------
\* The calls of the entry points
\* ------------------------------------------------------------------------

vars == <<parserVars, queueVars, lexer>>

NoResult == Tree("undefined", 0)

Init ==
    /\ decisionsToDFA = {}
    /\ source \in Sources
    /\ debug \in BOOLEAN
    /\ entry = "none"
    /\ outcome = "none"
    /\ converted = FALSE
    /\ result = NoResult
    /\ parser = initializeParser(<<>>, FALSE)
    /\ transformed = FALSE
    /\ object = Undefined
    /\ QueueConstructed
    /\ NoLexer

\* the lines every entry point ends with, after the rule function was
\* called: an error thrown by the rule function leaves the entry point at
\* once, otherwise the parse tree is converted and the result returned
Parse(entryPoint, antlrParser) ==
    LET baliTree == convertParseTree(antlrParser.ctx)
    IN /\ entry = "none"
       /\ entry' = entryPoint
       /\ parser' = antlrParser
       /\ converted' = (antlrParser.status = "ok")
       /\ outcome' = IF antlrParser.status # "ok" \/ baliTree.type = "TypeError"
                     THEN "thrown" ELSE "returned"
       /\ result' = IF antlrParser.status # "ok" \/ baliTree.type = "TypeError"
                    THEN NoResult ELSE baliTree
       /\ decisionsToDFA' = antlrParser.dfa
       /\ UNCHANGED <<source, debug, transformed, object>>
    /\ UNCHANGED <<queueVars, lexer>>

parseDocument == Parse("parseDocument", invoke("document", initializeParser(source, debug), 0))

parseComponent == Parse("parseComponent", invoke("component", initializeParser(source, debug), 0))

parseProcedure == Parse("parseProcedure", invoke("procedure", initializeParser(source, debug), 0))

parseExpression == Parse("parseExpression", invoke("expression", initializeParser(source, debug), 0))

\* the parse tree of a parse that succeeded is transformed
transform ==
    /\ entry # "none"
    /\ parser.status = "ok"
    /\ ~transformed
    /\ transformed' = TRUE
    /\ object' = generateJavaScriptObject(parser.ctx)
    /\ UNCHANGED <<source, debug, entry, outcome, converted, result, parser, decisionsToDFA>>
    /\ UNCHANGED <<queueVars, lexer>>

Next ==
    \/ parseDocument
    \/ parseComponent
    \/ parseProcedure
    \/ parseExpression

Spec == Init /\ [][Next]_vars

\* ------------------------------------------------------------------------
\* The calls of the transformer: a source is parsed and its parse tree is
\* handed to generateJavaScriptObject
\* ------------------------------------------------------------------------

InitTransformer ==
    /\ decisionsToDFA = {}
    /\ source \in TransformerSources
    /\ debug = FALSE
    /\ entry = "none"
    /\ outcome = "none"
    /\ converted = FALSE
    /\ result = NoResult
    /\ parser = initializeParser(<<>>, FALSE)
    /\ transformed = FALSE
    /\ object = Undefined
    /\ QueueConstructed
    /\ NoLexer

NextTransformer ==
    \/ parseDocument
    \/ parseComponent
    \/ parseProcedure
    \/ parseExpression
    \/ transform

SpecTransformer == InitTransformer /\ [][NextTransformer]_vars

\* ------------------------------------------------------------------------
\* The calls of a session: the module is loaded once and its functions are
\* called one after the other
\* ------------------------------------------------------------------------

\* sources whose composites need different predictions after the same
\* first tokens
SessionSources ==
    {<<"[", "2", ",", "3", "]">>,
     <<"[", "2", "..", "3", "]">>,
     <<"[", "$x", ":", "2", "]">>,
     <<"[", "\n", "2", "\n", "]">>,
     <<"2", "+", "&">>}

InitSession ==
    /\ decisionsToDFA = {}
    /\ source \in SessionSources
    /\ debug \in BOOLEAN
    /\ entry = "none"
    /\ outcome = "none"
    /\ converted = FALSE
    /\ result = NoResult
    /\ parser = initializeParser(<<>>, FALSE)
    /\ transformed = FALSE
    /\ object = Undefined
    /\ QueueConstructed
    /\ NoLexer

\* the call has ended and the client makes ready for the next call; what
\* the module holds stays as the call left it
nextCall ==
    /\ entry # "none"
    /\ entry' = "none"
    /\ source' \in SessionSources
    /\ debug' \in BOOLEAN
    /\ outcome' = "none"
    /\ converted' = FALSE
    /\ result' = NoResult
    /\ transformed' = FALSE
    /\ object' = Undefined
    /\ UNCHANGED <<parser, decisionsToDFA>>
    /\ UNCHANGED <<queueVars, lexer>>

NextSession ==
    \/ parseDocument
    \/ parseComponent
    \/ parseProcedure
    \/ parseExpression
    \/ nextCall

SpecSession == InitSession /\ [][NextSession]_vars

\* ------------------------------------------------------------------------
\* The calls of a client of a queue
\* ------------------------------------------------------------------------

\* the parser is not called
ParserNotCalled ==
    /\ decisionsToDFA = {}
    /\ source = <<>>
    /\ debug = FALSE
    /\ entry = "none"
    /\ outcome = "none"
    /\ converted = FALSE
    /\ result = NoResult
    /\ parser = initializeParser(<<>>, FALSE)
    /\ transformed = FALSE
    /\ object = Undefined

InitQueue ==
    /\ ParserNotCalled
    /\ QueueConstructed
    /\ NoLexer

\* the call of a method: the queue as the method leaves it and what the
\* client sees of the call
Called(method, r) ==
    /\ queue' = r.this
    /\ called' = [method |-> method, outcome |-> r.outcome, item |-> r.item,
                  array |-> r.array, size |-> r.size]
    /\ UNCHANGED <<parserVars, lexer, asked, version>>

\* queue.addItem(item) with a new item
addItem ==
    \E complexity \in Complexities :
        LET item == [id |-> history.added + 1, complexity |-> complexity]
            r == Queue_addItem(queue, item)
        IN /\ history.added < MaxAdds
           /\ Called("addItem", r)
           /\ history' = IF r.outcome = "returned"
                         THEN [history EXCEPT !.added = @ + 1] ELSE history

\* queue.removeItem()
removeItem ==
    LET r == Queue_removeItem(queue)
    IN /\ Called("removeItem", r)
       /\ history' = IF r.outcome = "returned"
                     THEN [history EXCEPT !.left = @ \cup {r.item.id}] ELSE history

\* queue.firstItem()
firstItem ==
    /\ Called("firstItem", Queue_firstItem(queue))
    /\ UNCHANGED history

\* queue.toArray()
toArray ==
    /\ Called("toArray", Return(queue, NoItem, Queue_toArray(queue), 0))
    /\ UNCHANGED history

\* queue.getSize()
getSize ==
    /\ Called("getSize", Return(queue, NoItem, <<>>, Queue_getSize(queue)))
    /\ UNCHANGED history

\* queue.removeAll()
removeAll ==
    /\ Called("removeAll", Queue_removeAll(queue))
    /\ history' = [history EXCEPT !.left = 1 .. history.added]

NextQueue ==
    \/ addItem
    \/ removeItem
    \/ firstItem
    \/ toArray
    \/ getSize
    \/ removeAll

SpecQueue == InitQueue /\ [][NextQueue]_vars

\* ------------------------------------------------------------------------
\* The calls of a client that fills a queue.  The client adds one and the
\* same component again and again, and seeds queues from collections that
\* hold that component, so that a queue is told by the number of its items.
\* ------------------------------------------------------------------------

\* the component the client adds
TheItem == [id |-> 1, complexity |-> 1]

\* the collections the client seeds a queue from: empty ones, small ones,
\* ones of as many items as a queue can hold and of one item more; a set
\* holds a component once, a queue holds no more than its capacity, and a
\* catalog is a collection a queue cannot be seeded from
Collections ==
    {Collection(type, [i \in 1 .. n |-> TheItem]) :
        type \in {"Array", "List", "Stack"}, n \in {0, 2, Capacity, Capacity + 1}}
    \cup {Collection("Queue", [i \in 1 .. n |-> TheItem]) : n \in {0, 2, Capacity}}
    \cup {Collection(type, [i \in 1 .. n |-> TheItem]) : type \in {"Set", "Catalog"}, n \in {0, 1}}

\* Queue.fromCollection(collection) of each of the collections
SeededQueues == [collection \in Collections |-> Queue_fromCollection(collection)]

\* queue.addItem(item) with the component
addItemAgain ==
    /\ Called("addItem", Queue_addItem(queue, TheItem))
    /\ UNCHANGED history

\* queue = Queue.fromCollection(collection): the client keeps the queue it
\* had when the call throws
fromCollection ==
    \E collection \in Collections :
        LET r == SeededQueues[collection]
        IN /\ Called("fromCollection",
                     IF r.outcome = "thrown" THEN Throw(queue) ELSE r)
           /\ UNCHANGED history

NextCapacity ==
    \/ addItemAgain
    \/ removeItem
    \/ getSize
    \/ fromCollection

SpecCapacity == InitQueue /\ [][NextCapacity]_vars

\* ------------------------------------------------------------------------
\* The calls of a client of the lexer
\* ------------------------------------------------------------------------

\* the length of the inputs
MaxChars == 5

RECURSIVE Strings(_, _)

\* the strings of at most n characters of an alphabet
Strings(alphabet, n) ==
    IF n = 0 THEN {<<>>}
    ELSE LET shorter == Strings(alphabet, n - 1)
         IN shorter \cup {Append(string, c) : string \in shorter, c \in alphabet}

\* the inputs: quoted text, and shell lines and tags
Inputs ==
    Strings({QUOTE, BACKSLASH, LF, " ", "a"}, MaxChars)
        \cup Strings({"^", "#", "!", "a", LF}, MaxChars)

InitLexer ==
    /\ ParserNotCalled
    /\ QueueConstructed
    /\ lexer \in {Lexer(input) : input \in Inputs}

\* lexer.nextToken()
nextToken ==
    /\ lexer.status = "ok"
    /\ lexer.index <= Len(lexer.input)
    /\ lexer' = Lexer_nextToken(lexer)
    /\ UNCHANGED <<parserVars, queueVars>>

NextLexer == nextToken

SpecLexer == InitLexer /\ [][NextLexer]_vars

\* ------------------------------------------------------------------------
\* The calls of a client that asks a queue for items.  The queue was seeded
\* from an array of components.
\* ------------------------------------------------------------------------

\* the number of different components
MaxComponents == 3

\* the number of items of the queue
MaxHeld == 2

\* the number of items the client asks for
MaxAsked == 2

\* the components: two of them are alike when they are the same one
Components == {[id |-> i, complexity |-> 1] : i \in 1 .. MaxComponents}

\* the arguments of containsAny and containsAll
Arguments ==
    {Argument(form, items) :
        form \in {"Array", "Sequential"}, items \in Strings(Components, MaxAsked)}
    \cup {Argument("Undefined", <<>>)}

InitCollection ==
    /\ ParserNotCalled
    /\ NoLexer
    /\ queue \in {Queue_fromCollection(Collection("Array", items)).this :
                    items \in Strings(Components, MaxHeld)}
    /\ called = NoCall
    /\ history = [added |-> 0, left |-> {}]
    /\ asked = NoQuestion
    /\ version = NoVersion

\* the call of containsAny or containsAll
Asked(method, items, answer) ==
    /\ asked' = [method |-> method, items |-> items, result |-> answer]
    /\ UNCHANGED <<parserVars, lexer, queue, called, history, version>>

\* queue.containsAny(items)
containsAny ==
    \E items \in Arguments : Asked("containsAny", items, Collection_containsAny(queue, items))

\* queue.containsAll(items)
containsAll ==
    \E items \in Arguments : Asked("containsAll", items, Collection_containsAll(queue, items))

NextCollection ==
    \/ containsAny
    \/ containsAll

SpecCollection == InitCollection /\ [][NextCollection]_vars

\* ------------------------------------------------------------------------
\* The calls of a client of a version.  The client creates a version, from
\* an array of levels or from nothing, calls its methods, stores numbers in
\* the array it passed and in the array getValue returned, and goes on with
\* the version that nextVersion returned.
\* ------------------------------------------------------------------------

\* the largest level the client passes
MaxLevel == 2

\* the largest number of levels the client passes
MaxLevels == 2

\* the arrays of levels the client passes
Values == Strings(0 .. MaxLevel, MaxLevels)

\* version(value): the function of the module that creates a version
bali_version(value, arrays) ==
    LET heap == IF value = "undefined" THEN [arrays EXCEPT !.own = <<1>>] ELSE arrays
        value_ == IF value = "undefined" THEN "own" ELSE value
    IN IF indexOf(heap[value_], 0) >= 0
       THEN [outcome |-> "thrown", value |-> value_, arrays |-> heap]
       ELSE Version(value_, heap)

\* what the client has after it created a version
Created(method, made) ==
    [exists |-> made.outcome = "returned", value |-> made.value, arrays |-> made.arrays,
     constructed |-> made.arrays[made.value],
     call |-> [NoVersionCall EXCEPT !.method = method, !.outcome = made.outcome]]

InitVersion ==
    /\ ParserNotCalled
    /\ NoLexer
    /\ queue = Queue
    /\ called = NoCall
    /\ history = [added |-> 0, left |-> {}]
    /\ asked = NoQuestion
    /\ version \in
        {Created("Version", Version("given", [NoArrays EXCEPT !.given = value])) :
            value \in Values}
        \cup {Created("version", bali_version("given", [NoArrays EXCEPT !.given = value])) :
            value \in Values}
        \cup {Created("Version", Version("undefined", NoArrays)),
              Created("version", bali_version("undefined", NoArrays))}

\* the call of a method of the version
VersionCalled(next) ==
    /\ version.exists
    /\ version' = next
    /\ UNCHANGED <<parserVars, lexer, queue, called, history, asked>>

\* the levels the version has
Levels == Version_getValue(version.value, version.arrays)

\* version.getValue()
getValue ==
    VersionCalled([version EXCEPT
        !.arrays.returned = Levels,
        !.call = [NoVersionCall EXCEPT !.method = "getValue", !.outcome = "returned",
                                       !.before = Levels, !.after = Levels]])

\* version.isEmpty() and version.getSize(); the client keeps an array that
\* getValue returned until its next call of a method
isEmpty ==
    VersionCalled([version EXCEPT
        !.arrays.returned = <<>>,
        !.call = [NoVersionCall EXCEPT
                    !.method = "isEmpty", !.outcome = "returned",
                    !.before = Levels, !.after = Levels,
                    !.empty = Version_isEmpty(version.value, version.arrays),
                    !.size = Version_getSize(version.value, version.arrays)]])

\* version = version.nextVersion(level): the client keeps the version it
\* had when the call throws, and the new version alone when it returns
nextVersion ==
    \E level \in {<<>>} \cup {<<l>> : l \in 0 .. MaxLevels + 1} :
        LET made == Version_nextVersion(version.value, level, version.arrays)
            call == [NoVersionCall EXCEPT
                        !.method = "nextVersion", !.outcome = made.outcome, !.level = level,
                        !.before = Levels,
                        !.after = Version_getValue(version.value, made.arrays),
                        !.next = Version_getValue(made.value, made.arrays)]
        IN /\ Len(Levels) <= MaxLevels
           /\ \A i \in 1 .. Len(Levels) : Levels[i] <= MaxLevel
           /\ VersionCalled(
                IF made.outcome = "returned"
                THEN [exists |-> TRUE, value |-> "own",
                      arrays |-> [NoArrays EXCEPT !.own = made.arrays.levels],
                      constructed |-> made.arrays.levels, call |-> call]
                ELSE [version EXCEPT !.arrays.returned = <<>>, !.call = call])

\* array[i] = level on the array the client passed to the constructor
storeInGiven ==
    \E i \in 1 .. Len(version.arrays.given), level \in 0 .. MaxLevel :
        /\ version.value = "given"
        /\ VersionCalled([version EXCEPT !.arrays.given[i] = level,
                                         !.arrays.returned = <<>>,
                                         !.call = [NoVersionCall EXCEPT !.method = "store"]])

\* array[i] = 0 on the array getValue returned
storeInReturned ==
    \E i \in 1 .. Len(version.arrays.returned) :
        VersionCalled([version EXCEPT !.arrays.returned[i] = 0,
                                      !.call = [NoVersionCall EXCEPT !.method = "store"]])

NextVersion ==
    \/ getValue
    \/ isEmpty
    \/ nextVersion
    \/ storeInGiven
    \/ storeInReturned

SpecVersion == InitVersion /\ [][NextVersion]_vars

\* ------------------------------------------------------------------------
\* The conversion of blocks of text and of binary strings: each literal at
\* the top, in arrays, tables and procedures of both forms, one and two
\* deep, in a range and after an array that is closed
\* ------------------------------------------------------------------------

TextPlaces(value) ==
    {<<value>>,
     <<"[", value, "]">>,
     <<"[", "\n", value, "\n", "]">>,
     <<"[", "[", value, "]", "]">>,
     <<"[", "\n", "[", "\n", value, "\n", "]", "\n", "]">>,
     <<"[", "\n", "[", value, "]", "\n", "]">>,
     <<"[", "$x", ":", value, "]">>,
     <<"[", "\n", "$x", ":", value, "\n", "]">>,
     <<"[", "[", "2", "]", ",", value, "]">>,
     <<"[", value, "..", "3", "]">>,
     <<"{", value, "}">>,
     <<"{", "\n", value, "\n", "}">>}

TextSources == UNION {TextPlaces(value) : value \in TextBlocks \cup Binaries}

InitIndentation ==
    /\ decisionsToDFA = {}
    /\ source \in TextSources
    /\ debug \in BOOLEAN
    /\ entry = "none"
    /\ outcome = "none"
    /\ converted = FALSE
    /\ result = NoResult
    /\ parser = initializeParser(<<>>, FALSE)
    /\ transformed = FALSE
    /\ object = Undefined
    /\ QueueConstructed
    /\ NoLexer

SpecIndentation == InitIndentation /\ [][Next]_vars


\* ------------------------------------------------------------------------
\* Properties of a call
\* ------------------------------------------------------------------------

\* the kinds of event that are an error of the lexer or of a grammar rule
ErrorKinds == {"lexer", "NoViableAlt", "FailedPredicate", "mismatch"}

ErrorEvents == {i \in 1 .. Len(parser.events) : parser.events[i].kind \in ErrorKinds}

ReportEvents == {i \in 1 .. Len(parser.events) : parser.events[i].kind = "report"}

RECURSIVE HasException(_), HasExceptionIn(_)

\* some context of the parse tree carries an exception
HasException(ctx) == ctx.exception \/ HasExceptionIn(ctx.children)

HasExceptionIn(contexts) ==
    contexts # <<>> /\ (HasException(Head(contexts)) \/ HasExceptionIn(Tail(contexts)))

\* C1: once the lexer or a grammar rule raises an error the parse is
\* aborted at that point: nothing is consumed or matched afterwards, no
\* second error is raised, the error is reported at most once (at the
\* position of the first error) and the call throws
C1_FailFast ==
    \A i \in ErrorEvents :
        /\ entry # "none" => outcome = "thrown"
        /\ \A j \in (i + 1) .. Len(parser.events) :
                parser.events[j].kind \in {"report", "abort"}
        /\ parser.events[Len(parser.events)].kind = "abort"
        /\ Cardinality(ReportEvents) <= 1
        /\ \A j \in ReportEvents : j = i + 1 /\ parser.events[j].index = parser.events[i].index
        /\ ~debug => ReportEvents = {}

\* a source with two independent syntax errors was parsed in debug mode
\* and the first error, the only one met, was reported
C1_Witness ==
    /\ entry = "parseExpression"
    /\ debug
    /\ source = <<"2", "+", "+", "3", "+", "+">>
    /\ outcome = "thrown"
    /\ Cardinality(ReportEvents) = 1
    /\ \E i \in ErrorEvents : parser.events[i].index = 3

\* C2: an entry point either returns the tree converted from a parse tree
\* that was recognised without any error, or throws and returns nothing;
\* after an error of the lexer or of the parser the parse tree is never
\* converted
C2_ReturnsCompleteTreeOrThrows ==
    /\ entry # "none" => outcome \in {"returned", "thrown"}
    /\ outcome = "returned" =>
        /\ ErrorEvents = {}
        /\ parser.status = "ok"
        /\ ~HasException(parser.ctx)
        /\ converted
        /\ result = convertParseTree(parser.ctx)
        /\ result.type # "TypeError"
    /\ outcome = "thrown" => result = NoResult
    /\ ErrorEvents # {} => outcome = "thrown" /\ ~converted /\ result = NoResult

\* a call met an unmatched character and threw, and a call met a syntax
\* error after part of the tree was built and threw
C2_Witness ==
    /\ outcome = "thrown"
    /\ ~converted
    /\ \/ source = <<"2", "&", "3", "&">> /\ parser.events[1].kind = "lexer"
       \/ /\ source = <<"(", "2">>
          /\ entry = "parseExpression"
          /\ convertParseTree(parser.ctx).type = "PRECEDENCE_EXPRESSION"

\* ------------------------------------------------------------------------
\* Properties of the expressions
\* ------------------------------------------------------------------------

RECURSIVE Yield(_), YieldOfAll(_)

\* the texts of the terminals of a tree, from left to right
Yield(tree) ==
    IF tree.children = <<>> THEN tree.value ELSE YieldOfAll(tree.children)

YieldOfAll(trees) ==
    IF trees = <<>> THEN <<>> ELSE Yield(Head(trees)) \o YieldOfAll(Tail(trees))

\* the type of the node a binary operator makes
NodeType(op) ==
    IF op = "^" THEN "EXPONENTIAL_EXPRESSION"
    ELSE IF op \in ArithmeticOperators THEN "ARITHMETIC_EXPRESSION"
    ELSE IF op \in ComparisonOperators THEN "COMPARISON_EXPRESSION"
    ELSE IF op \in LogicalOperators THEN "LOGICAL_EXPRESSION"
    ELSE "DEFAULT_EXPRESSION"

\* the levels of the precedence table: a higher level binds tighter
Level(op) ==
    IF op = "^" THEN 8
    ELSE IF op \in ArithmeticOperators THEN 6
    ELSE IF op \in ComparisonOperators THEN 4
    ELSE IF op \in LogicalOperators THEN 2
    ELSE 1

IsOperand(text) == TokenType(text) \in {"FLOAT", "IDENTIFIER"}

\* the source is  x op y op z
IsChain ==
    /\ Len(source) = 5
    /\ IsOperand(source[1]) /\ IsOperand(source[3]) /\ IsOperand(source[5])
    /\ source[2] \in BinaryOperators /\ source[4] \in BinaryOperators

ParsedExpression == entry = "parseExpression" /\ outcome = "returned"

\* the tree is the node of op with these operands
IsBinary(tree, op, left, right) ==
    /\ tree.type = NodeType(op)
    /\ Len(tree.children) = 2
    /\ Yield(tree.children[1]) = left
    /\ Yield(tree.children[2]) = right

\* (x op y) op z
LeftNested(tree, s) ==
    /\ IsBinary(tree, s[4], <<s[1], s[3]>>, <<s[5]>>)
    /\ IsBinary(tree.children[1], s[2], <<s[1]>>, <<s[3]>>)

\* x op (y op z)
RightNested(tree, s) ==
    /\ IsBinary(tree, s[2], <<s[1]>>, <<s[3], s[5]>>)
    /\ IsBinary(tree.children[2], s[4], <<s[3]>>, <<s[5]>>)

\* C3: the five arithmetic operators share one level and group to the
\* left: x op y op z is (x op y) op z, so the root of `2 + 3 * 4` is the
\* `*` node and its left operand is the node of `2 + 3`
C3_ArithmeticGroupsLeft ==
    (ParsedExpression /\ IsChain
        /\ source[2] \in ArithmeticOperators /\ source[4] \in ArithmeticOperators)
    => /\ LeftNested(result, source)
       /\ result.operator = source[4]
       /\ result.children[1].operator = source[2]

C3_Witness ==
    /\ ParsedExpression
    /\ source = <<"2", "+", "3", "*", "4">>
    /\ result.operator = "*"
    /\ result.children[1].type = "ARITHMETIC_EXPRESSION"

\* C3 as stated: the root of `2 + 3 * 4` is the `+` node and its right
\* operand is the node of `3 * 4`
C3_MultiplicationBindsTighter ==
    (ParsedExpression /\ source = <<"2", "+", "3", "*", "4">>)
    => /\ RightNested(result, source)
       /\ result.operator = "+"
       /\ result.children[2].operator = "*"

\* C4: exponentiation groups to the right: a ^ b ^ c is a ^ (b ^ c)
C4_ExponentiationGroupsRight ==
    (ParsedExpression /\ IsChain /\ source[2] = "^" /\ source[4] = "^")
    => RightNested(result, source)

C4_Witness ==
    /\ ParsedExpression
    /\ source = <<"2", "^", "3", "^", "2">>
    /\ result.children[2].type = "EXPONENTIAL_EXPRESSION"
    /\ Yield(result.children[1]) = <<"2">>

\* C5: `?` binds less tightly than every other binary operator, on either
\* side of it, and groups to the left: a ? b ? c is (a ? b) ? c
C5_DefaultIsLowestAndGroupsLeft ==
    (ParsedExpression /\ IsChain) =>
        /\ (source[2] = "?" /\ source[4] = "?") => LeftNested(result, source)
        /\ (source[2] = "?" /\ source[4] # "?") => RightNested(result, source)
        /\ (source[2] # "?" /\ source[4] = "?") => LeftNested(result, source)

C5_Witness ==
    /\ ParsedExpression
    /\ source = <<"a", "?", "b", "?", "c">>
    /\ result.type = "DEFAULT_EXPRESSION"
    /\ result.children[1].type = "DEFAULT_EXPRESSION"

\* C5 as stated: a ? b ? c is a ? (b ? c), and `?` is the root of
\* a ? b or c
C5_DefaultGroupsRight ==
    /\ (ParsedExpression /\ source = <<"a", "?", "b", "?", "c">>)
            => RightNested(result, source)
    /\ (ParsedExpression /\ source = <<"a", "?", "b", "or", "c">>)
            => result.type = "DEFAULT_EXPRESSION"

\* C6: among the arithmetic (6), comparison (4) and logical (2) operators
\* x op y op z is (x op y) op z when the first operator is of the same or
\* of a higher level than the second, and x op (y op z) when it is of a
\* lower level
C6_LevelsGroupLeftAndHigherBindsTighter ==
    /\ (ParsedExpression /\ IsChain
            /\ Level(source[2]) \in {2, 4, 6} /\ Level(source[4]) \in {2, 4, 6})
        => IF Level(source[2]) >= Level(source[4])
           THEN LeftNested(result, source)
           ELSE RightNested(result, source)
    /\ (ParsedExpression /\ source = <<"a", "and", "b", "=", "c", "+", "d">>)
        => /\ IsBinary(result, "and", <<"a">>, <<"b", "c", "d">>)
           /\ IsBinary(result.children[2], "=", <<"b">>, <<"c", "d">>)
           /\ IsBinary(result.children[2].children[2], "+", <<"c">>, <<"d">>)

C6_Witness ==
    /\ ParsedExpression
    /\ \/ /\ source = <<"a", "-", "b", "-", "c">>
          /\ result.children[1].type = "ARITHMETIC_EXPRESSION"
       \/ /\ source = <<"a", "and", "b", "=", "c", "+", "d">>
          /\ result.children[2].type = "COMPARISON_EXPRESSION"
       \/ /\ source = <<"2", "<", "3", "or", "4">>
          /\ result.children[1].type = "COMPARISON_EXPRESSION"

\* the tree is a postfix node: an indexed expression, a message sent to an
\* expression or a factorial
IsPostfix(tree, type, operand) ==
    /\ tree.type = type
    /\ Yield(tree.children[1]) = operand

\* C7: a postfix operator applies to the operand before it and not to the
\* power the operand is the exponent of, and a factorial after an index or
\* a message applies to the indexed expression or to the message
C7_PostfixBindsTighter ==
    /\ (ParsedExpression /\ source = <<"a", "^", "b", "!">>)
        => /\ result.type = "EXPONENTIAL_EXPRESSION"
           /\ IsPostfix(result.children[2], "FACTORIAL_EXPRESSION", <<"b">>)
    /\ (ParsedExpression /\ source = <<"a", "^", "b", "[", "2", "]">>)
        => /\ result.type = "EXPONENTIAL_EXPRESSION"
           /\ IsPostfix(result.children[2], "SUBCOMPONENT_EXPRESSION", <<"b">>)
    /\ (ParsedExpression /\ source = <<"a", "^", "b", ".", "m", "(", "3", ")">>)
        => /\ result.type = "EXPONENTIAL_EXPRESSION"
           /\ IsPostfix(result.children[2], "MESSAGE_EXPRESSION", <<"b">>)
    /\ (ParsedExpression /\ source = <<"b", "[", "2", "]", "!">>)
        => /\ result.type = "FACTORIAL_EXPRESSION"
           /\ IsPostfix(result.children[1], "SUBCOMPONENT_EXPRESSION", <<"b">>)
    /\ (ParsedExpression /\ source = <<"b", ".", "m", "(", "3", ")", "!">>)
        => /\ result.type = "FACTORIAL_EXPRESSION"
           /\ IsPostfix(result.children[1], "MESSAGE_EXPRESSION", <<"b">>)
    /\ (ParsedExpression /\ source = <<"a", "^", "b", "[", "2", "]", "!">>)
        => /\ result.type = "EXPONENTIAL_EXPRESSION"
           /\ IsPostfix(result.children[2], "FACTORIAL_EXPRESSION", <<"b", "2">>)
           /\ IsPostfix(result.children[2].children[1], "SUBCOMPONENT_EXPRESSION", <<"b">>)

C7_Witness ==
    /\ ParsedExpression
    /\ \/ /\ source = <<"a", "^", "b", "!">>
          /\ result.children[2].type = "FACTORIAL_EXPRESSION"
       \/ /\ source = <<"b", ".", "m", "(", "3", ")", "!">>
          /\ result.type = "FACTORIAL_EXPRESSION"
       \/ /\ source = <<"a", "^", "b", "[", "2", "]">>
          /\ result.children[2].type = "SUBCOMPONENT_EXPRESSION"

\* ------------------------------------------------------------------------
\* Properties of the statements
\* ------------------------------------------------------------------------

RECURSIVE Count(_, _)

\* how many times a token occurs in a sequence of tokens
Count(tokens, t) ==
    IF tokens = <<>> THEN 0
    ELSE (IF Head(tokens) = t THEN 1 ELSE 0) + Count(Tail(tokens), t)

RECURSIVE Contexts(_), ContextsOfAll(_)

\* the contexts of a parse tree
Contexts(ctx) == {ctx} \cup ContextsOfAll(ctx.children)

ContextsOfAll(contexts) ==
    IF contexts = <<>> THEN {}
    ELSE Contexts(Head(contexts)) \cup ContextsOfAll(Tail(contexts))

RECURSIVE Nodes(_), NodesOfAll(_)

\* the nodes of a tree
Nodes(tree) == {tree} \cup NodesOfAll(tree.children)

NodesOfAll(trees) ==
    IF trees = <<>> THEN {}
    ELSE Nodes(Head(trees)) \cup NodesOfAll(Tail(trees))

\* one statement was parsed as a procedure
ParsedStatement ==
    /\ entry = "parseProcedure"
    /\ outcome = "returned"
    /\ source \in Statements

\* C8 as stated: the children of the STATEMENT node are the main clause,
\* then every handle clause in source order, then the finish clause when
\* the statement has one
C8_StatementKeepsEveryClause ==
    ParsedStatement =>
        LET children == result.children[1].children
            handles == Count(source, "handle")
            finishes == Count(source, "finish")
        IN /\ result.children[1].type = "STATEMENT"
           /\ Len(children) = 1 + handles + finishes
           /\ children[1].type \in {"IF_CLAUSE", "RETURN_CLAUSE", "EVALUATE_CLAUSE"}
           /\ \A i \in 2 .. (1 + handles) : children[i].type = "HANDLE_CLAUSE"
           /\ finishes = 1 => children[Len(children)].type = "FINISH_CLAUSE"

\* C9: an IF_CLAUSE node made from n conditions and b blocks has the n
\* (condition, block) pairs in source order as its first 2n children and,
\* exactly when b > n, the last block as one more child; b - n is 0 or 1
C9_IfClauseShape ==
    outcome = "returned" =>
        /\ \A c \in Contexts(parser.ctx) : c.alt = "IfClause" =>
            LET expressions == getTypedRuleContexts(c, "expression")
                blocks == getTypedRuleContexts(c, "block")
                n == Len(expressions)
                tree == Visit(c, 0)
            IN /\ n >= 1
               /\ Len(blocks) - n \in {0, 1}
               /\ tree.type = "IF_CLAUSE"
               /\ tree \in Nodes(result)
               /\ Len(tree.children) = 2 * n + (Len(blocks) - n)
               /\ \A i \in 1 .. n :
                    /\ tree.children[2 * i - 1] = Visit(expressions[i], 0)
                    /\ tree.children[2 * i] = Visit(blocks[i], 0)
               /\ Len(blocks) > n =>
                    tree.children[2 * n + 1] = Visit(blocks[Len(blocks)], 0)
        /\ \A tree \in Nodes(result) : tree.type = "IF_CLAUSE" =>
            /\ Len(tree.children) >= 2
            /\ \A i \in 1 .. Len(tree.children) :
                    (tree.children[i].type = "BLOCK")
                        <=> (i % 2 = 0 \/ (i = Len(tree.children) /\ i % 2 = 1))
        /\ (ParsedStatement /\ source[1] = "if") =>
            LET n == Count(source, "if")
                else == Count(source, "else") - (n - 1)
            IN Len(result.children[1].children[1].children) = 2 * n + else

C9_Witness ==
    /\ ParsedStatement
    /\ source = <<"if", "a", "then", "{", "}", "else", "if", "b", "then", "{", "}",
                  "else", "{", "}">>
    /\ Len(result.children[1].children[1].children) = 5
    /\ Yield(result.children[1].children[1].children[3]) = <<"b">>

\* ------------------------------------------------------------------------
\* Properties of the operators recorded
\* ------------------------------------------------------------------------

BinaryTypes ==
    {"EXPONENTIAL_EXPRESSION", "ARITHMETIC_EXPRESSION", "COMPARISON_EXPRESSION",
     "LOGICAL_EXPRESSION", "DEFAULT_EXPRESSION"}

\* the source is  x op y ... op z
IsOperatorChain ==
    /\ Len(source) % 2 = 1
    /\ \A i \in 1 .. Len(source) :
            IF i % 2 = 1 THEN IsOperand(source[i]) ELSE source[i] \in BinaryOperators

\* the operator a node records for an operator of the source: its text for
\* the arithmetic, comparison and logical operators, none for `^` and `?`
Recorded(op) == IF op \in {"^", "?"} THEN "" ELSE op

RECURSIVE OperatorsRecorded(_, _), OperatorsKept(_, _)

\* every binary node of the tree of an operator chain, whose first token
\* is at start, has the type of the operator matched between its operands
\* and records it as Recorded says
OperatorsRecorded(tree, start) ==
    tree.type \in BinaryTypes =>
        LET op == source[start + 2 * Len(Yield(tree.children[1])) - 1]
        IN /\ tree.type = NodeType(op)
           /\ tree.operator = Recorded(op)
           /\ OperatorsRecorded(tree.children[1], start)
           /\ OperatorsRecorded(tree.children[2],
                                start + 2 * Len(Yield(tree.children[1])))

\* every binary node of the tree records the text of its operator
OperatorsKept(tree, start) ==
    tree.type \in BinaryTypes =>
        LET op == source[start + 2 * Len(Yield(tree.children[1])) - 1]
        IN /\ tree.operator = op
           /\ OperatorsKept(tree.children[1], start)
           /\ OperatorsKept(tree.children[2],
                            start + 2 * Len(Yield(tree.children[1])))

StartRule(entryPoint) ==
    CASE entryPoint = "parseDocument" -> "document"
      [] entryPoint = "parseComponent" -> "component"
      [] entryPoint = "parseProcedure" -> "procedure"
      [] entryPoint = "parseExpression" -> "expression"

\* the composite nodes of the tree that was returned
Composites == {tree \in Nodes(result) : tree.type \in {"LIST", "CATALOG", "RANGE"}}

\* C11: a comma-delimited composite and its newline-delimited equivalent
\* are converted to equal trees (same types, same children in the same
\* order, same sizes), and [] and [:] are converted to a LIST and to a
\* CATALOG without children
C11_DelimitersConvertAlike ==
    entry # "none" =>
        /\ \A items \in CompositeItems : source = InlineComposite(items) =>
                LET other == invoke(StartRule(entry),
                        initializeParser(NewlineComposite(items), debug), 0)
                IN /\ outcome = "returned"
                   /\ other.status = "ok"
                   /\ convertParseTree(other.ctx) = result
                   /\ \E tree \in Composites : Len(tree.children) = Len(items)
        /\ source = EmptyArraySource =>
                /\ outcome = "returned"
                /\ Composites = {Tree("LIST", 0)}
        /\ source = EmptyTableSource =>
                /\ outcome = "returned"
                /\ Composites = {Tree("CATALOG", 0)}

C11_Witness ==
    /\ entry = "parseComponent"
    /\ source = <<"[", "2", ",", "$x", ",", "2", "]">>
    /\ outcome = "returned"
    /\ result.children[1].children[1].type = "LIST"
    /\ Len(result.children[1].children[1].children) = 3

\* ------------------------------------------------------------------------
\* Properties of the transformer
\* ------------------------------------------------------------------------

\* the kinds of expression node that are never transformed
RejectedNodes ==
    {"ArithmeticExpression", "ComparisonExpression", "LogicalExpression",
     "MessageExpression", "DereferenceExpression", "InversionExpression",
     "ComplementExpression", "MagnitudeExpression", "PrecedenceExpression",
     "VariableExpression", "FunctionExpression", "SubcomponentExpression"}

\* C12: transforming a parse tree that contains, at any depth, an
\* arithmetic, comparison, logical, message, dereference, inversion,
\* complement, magnitude, precedence, variable, function or subcomponent
\* expression node throws an error and returns no value.
C12_ExpressionNodesAreRejected ==
    (transformed /\ \E c \in Contexts(parser.ctx) : c.alt \in RejectedNodes)
        => object.type = "Error"

\* a variable in a table in a table was parsed and the transformer threw
C12_Witness ==
    /\ transformed
    /\ entry = "parseComponent"
    /\ source = <<"[", "$x", ":", "[", "$x", ":", "a", "]", "]">>
    /\ \E c \in Contexts(parser.ctx) : c.alt = "VariableExpression"
    /\ object = ExpressionsError

RECURSIVE Literal(_)

\* a parse tree built only from literal elements, structures and blocks
Literal(ctx) ==
    \/ ctx.rule \in {"TERMINAL", "block"}
    \/ /\ ctx.rule \in {"document", "component", "element", "structure", "parameters",
                        "composite", "range", "array", "table", "association",
                        "number", "real", "imaginary", "symbol", "expression"}
       /\ ctx.rule = "expression" => ctx.alt = "ComponentExpression"
       /\ \A k \in 1 .. Len(ctx.children) : Literal(ctx.children[k])

\* the value of an item of ArrayItems
ItemValue(item) ==
    IF item[1] \in Floats THEN Object("Complex", item) ELSE Object("Symbol", item)

\* C13: extracting the value of a component built only from literal
\* elements, structures and blocks never throws; a literal array yields the
\* values of its items in order, as many as the items, and a block yields a
\* value.
C13_LiteralsAreTransformed ==
    (transformed /\ entry = "parseComponent" /\ Literal(parser.ctx)) =>
        /\ object.type # "Error"
        /\ \A n \in 1 .. MaxItems : \A items \in ItemLists(ArrayItems, n) :
              source = InlineComposite(items) =>
                  /\ Len(object.value) = n
                  /\ \A k \in 1 .. n : object.value[k] = ItemValue(items[k])

\* ------------------------------------------------------------------------
\* Properties of the calls of a session
\* ------------------------------------------------------------------------

\* what the call returns in a module that was just loaded
FreshParser == invoke(StartRule(entry), [initializeParser(source, debug) EXCEPT !.dfa = {}], 0)

OtherDebug == invoke(StartRule(entry), initializeParser(source, ~debug), 0)

\* C15: a call with debug set and the same call without it both throw or
\* both return, and return equal trees; debug only adds output.
C15_DebugOnlyAddsOutput ==
    entry # "none" =>
        LET other == OtherDebug
            tree == convertParseTree(other.ctx)
        IN /\ (other.status = "ok") <=> (parser.status = "ok")
           /\ other.ctx = parser.ctx
           /\ outcome = "returned" => result = tree
           /\ outcome = "thrown" => (other.status # "ok" \/ tree.type = "TypeError")
           /\ ~debug => parser.console = <<>>

\* a call with debug set printed a message and threw, as the call without
\* debug does
C15_Witness ==
    /\ entry = "parseExpression"
    /\ source = <<"2", "+", "+", "3", "+", "+">>
    /\ debug
    /\ parser.console # <<>>
    /\ outcome = "thrown"
    /\ LET other == OtherDebug IN other.status # "ok" /\ other.console = <<>>

\* ------------------------------------------------------------------------
\* The queue
\* ------------------------------------------------------------------------

\* the numbers of the items that were added and have not left the queue
Remaining == (1 .. history.added) \ history.left

\* the item of a set of items that was added first
Earliest(ids) == CHOOSE i \in ids : \A j \in ids : i <= j

\* C19: a queue is first-in first-out.  removeItem returns the item that
\* was added earliest among those that had not left the queue, firstItem
\* returns that item and leaves it in the queue, and toArray lists the
\* items of the queue in the order in which they were added.
C19_FirstInFirstOut ==
    /\ (called.method = "removeItem" /\ called.outcome = "returned")
        => /\ called.item.id = Earliest(Remaining \cup {called.item.id})
           /\ called.item.id \notin {queue.array[i].id : i \in 1 .. Len(queue.array)}
    /\ (called.method = "firstItem" /\ called.outcome = "returned")
        => /\ Remaining # {}
           /\ called.item.id = Earliest(Remaining)
           /\ queue.array[1] = called.item
    /\ (called.method = "toArray" /\ called.outcome = "returned")
        => /\ {called.array[i].id : i \in 1 .. Len(called.array)} = Remaining
           /\ \A i, j \in 1 .. Len(called.array) :
                i < j => called.array[i].id < called.array[j].id

\* the second of three items was removed after the first one, and the third
\* one is still in the queue
C19_Witness ==
    /\ called.method = "removeItem"
    /\ called.outcome = "returned"
    /\ called.item.id = 2
    /\ history.added = 3
    /\ Len(queue.array) = 1

\* C20: removeItem and firstItem throw when the queue is empty, and leave
\* the items, the size and the complexity of the queue as they were,
\* whether the queue never held an item or was emptied by removeItem or by
\* removeAll.
C20_EmptyQueueThrows ==
    [][(queue.array = <<>> /\ called' # called
            /\ called'.method \in {"removeItem", "firstItem"})
        => /\ called'.outcome = "thrown"
           /\ queue'.array = queue.array
           /\ Len(queue'.array) = Len(queue.array)
           /\ queue'.complexity = queue.complexity]_vars

\* removeItem has thrown on a queue that removeItem had emptied
C20_Witness ==
    /\ called.method = "removeItem"
    /\ called.outcome = "thrown"
    /\ queue.array = <<>>
    /\ history.added > 0
    /\ history.left = 1 .. history.added

\* ------------------------------------------------------------------------
\* The tokens of quoted text and of shell lines
\* ------------------------------------------------------------------------

\* the tokens that begin with a quote
QuotedTokens ==
    {lexer.tokens[i] : i \in {j \in 1 .. Len(lexer.tokens) :
                                lexer.input[lexer.tokens[j].start] = QUOTE}}

\* the text of a token
Lexeme(token) == SubSeq(lexer.input, token.start, token.stop)

\* a text has the form of a block: a quote, a newline, any characters, a
\* newline, white space or nothing, and a quote
HasBlockForm(text) ==
    /\ Len(text) >= 4
    /\ text[1] = QUOTE
    /\ text[Len(text)] = QUOTE
    /\ \E first \in {2, 3}, last \in 3 .. Len(text) - 1 :
        /\ text[first] = LF
        /\ first = 3 => text[2] = CR
        /\ last > first
        /\ text[last] = LF
        /\ \A k \in last + 1 .. Len(text) - 1 : text[k] \in SpaceCharacters

\* the ends of the texts of the form of a block that start at a position
BlockEnds(start) ==
    {stop \in start .. Len(lexer.input) : HasBlockForm(SubSeq(lexer.input, start, stop))}

\* C17 as the specification states it: a quoted string is a TEXT_BLOCK if
\* a newline follows its opening quote and a TEXT otherwise, so that no
\* TEXT has a newline as its first body character
C17_NewlineAfterQuoteIsTextBlock ==
    \A token \in QuotedTokens :
        /\ token.type \in {"TEXT_BLOCK", "TEXT"}
        /\ token.type = "TEXT_BLOCK" <=> lexer.input[token.start + 1] = LF

\* C17: a quote starts a TEXT_BLOCK exactly when the input from the quote
\* on has the form of a block, which takes a newline right after the
\* opening quote and a closing quote that only white space separates from
\* a later newline; the token ends at the first such closing quote.  Every
\* other quoted string is a TEXT, and the lexer fails at a quote only if no
\* text of the form of a block starts there.
C17_BlockFormIsTextBlock ==
    /\ \A token \in QuotedTokens :
        /\ token.type \in {"TEXT_BLOCK", "TEXT"}
        /\ token.type = "TEXT_BLOCK" <=> BlockEnds(token.start) # {}
        /\ token.type = "TEXT_BLOCK" =>
            /\ lexer.input[token.start + 1] \in {LF, CR}
            /\ token.stop \in BlockEnds(token.start)
            /\ \A stop \in BlockEnds(token.start) : token.stop <= stop
    /\ (lexer.status = "error" /\ lexer.input[lexer.index] = QUOTE)
        => BlockEnds(lexer.index) = {}

\* a block of one line was lexed as one TEXT_BLOCK
C17_Witness ==
    /\ lexer.input = <<QUOTE, LF, "a", LF, QUOTE>>
    /\ lexer.tokens = <<[type |-> "TEXT_BLOCK", literal |-> 0, start |-> 1, stop |-> 5]>>

\* C18: a SHELL token begins at the first character of the input
C18_ShellOnlyAtStart ==
    \A i \in 1 .. Len(lexer.tokens) :
        lexer.tokens[i].type = "SHELL" => lexer.tokens[i].start = 1

\* ------------------------------------------------------------------------
\* Properties of the round trip.  The formatter is given the document that
\* parseDocument returned, so the text it writes is a function of that
\* document.
\* ------------------------------------------------------------------------

\* the text with newlines added before and after its component
Padded(text) ==
    {<<"\n">> \o text, text \o <<"\n">>, <<"\n">> \o text \o <<"\n", "\n">>}

\* parseDocument(text, debug_): the document returned, NoResult when thrown
ParsedDocument(text, debug_) ==
    LET antlrParser == invoke("document", initializeParser(text, debug_), 0)
        baliTree == IF antlrParser.status = "ok" THEN convertParseTree(antlrParser.ctx)
                    ELSE TypeErrorNode
    IN IF baliTree.type = "TypeError" THEN NoResult ELSE baliTree

C27_CapacityIsKept ==
    /\ [](queue.capacity = 1024 /\ Len(queue.array) <= queue.capacity)
    /\ [][(called' # called /\ called'.method = "addItem")
            => IF Len(queue.array) = 1024
               THEN /\ called'.outcome = "thrown"
                    /\ queue'.array = queue.array
                    /\ Queue_getSize(queue') = Queue_getSize(queue)
                    /\ queue'.complexity = queue.complexity
               ELSE /\ called'.outcome = "returned"
                    /\ Len(queue'.array) = Len(queue.array) + 1]_vars

\* addItem has thrown on a queue that holds 1024 items
C27_Witness ==
    /\ called.method = "addItem"
    /\ called.outcome = "thrown"
    /\ Len(queue.array) = 1024

RECURSIVE SumOfComplexities(_)

\* the sum of the complexities of the items
SumOfComplexities(items) ==
    IF items = <<>> THEN 0
    ELSE Head(items).complexity + SumOfComplexities(Tail(items))

\* C28: the complexity of a queue is that of a new queue, plus the
\* complexities of the items it holds, plus 2 for each separator between
\* two items; after removeAll the queue is empty and has the complexity of
\* a new queue
C28_ComplexityFollowsItems ==
    /\ queue.complexity = Queue.complexity + SumOfComplexities(queue.array)
            + (IF Len(queue.array) > 1 THEN 2 * (Len(queue.array) - 1) ELSE 0)
    /\ called.method = "removeAll"
        => /\ Queue_getSize(queue) = 0
           /\ queue.complexity = Queue.complexity

\* ------------------------------------------------------------------------
\* Properties of containsAny and containsAll
\* ------------------------------------------------------------------------

\* the items asked for that the queue holds
AskedAndHeld ==
    {i \in 1 .. Len(asked.items.items) : containsItem(queue, asked.items.items[i])}

\* C21: containsAny returns true exactly when the queue holds at least one
\* of the items, for an array and for a sequential component alike and in
\* whatever order the items are listed
C21_ContainsAnyIsExistence ==
    (asked.method = "containsAny" /\ asked.items.form \in {"Array", "Sequential"})
        => (asked.result <=> AskedAndHeld # {})

\* C22: containsAll returns true exactly when the queue holds every one of
\* the items, for an array and for a sequential component alike and in
\* whatever order the items are listed
C22_ContainsAllIsForAll ==
    (asked.method = "containsAll" /\ asked.items.form \in {"Array", "Sequential"})
        => (asked.result <=> AskedAndHeld = 1 .. Len(asked.items.items))

\* ------------------------------------------------------------------------
\* Properties of a version
\* ------------------------------------------------------------------------

\* C23: nextVersion leaves the version it is called on as it was and
\* returns a version whose levels are: with no level given, those of the
\* receiver with the last one incremented; with a level from 1 to the
\* number n of levels, the first levels up to that one, which is
\* incremented; with a level above n, those of the receiver and one more
\* level 1.  It returns whenever the receiver has no level 0.
C23_NextVersion ==
    version.call.method = "nextVersion" =>
        LET call == version.call
            n == Len(call.before)
        IN /\ call.after = call.before
           /\ (\A i \in 1 .. n : call.before[i] # 0) => call.outcome = "returned"
           /\ (call.outcome = "returned" /\ call.level = <<>> /\ n >= 1)
                => call.next = [call.before EXCEPT ![n] = @ + 1]
           /\ (call.outcome = "returned" /\ call.level # <<>>)
                => /\ call.level[1] \in 1 .. n
                    => call.next = SubSeq([call.before EXCEPT ![call.level[1]] = @ + 1],
                                          1, call.level[1])
                   /\ call.level[1] > n => call.next = Append(call.before, 1)

\* the next version of 1.2 at level 1 is 2
C23_Witness ==
    /\ version.call.method = "nextVersion"
    /\ version.call.outcome = "returned"
    /\ version.call.level = <<1>>
    /\ version.call.before = <<1, 2>>
    /\ version.call.next = <<2>>
    /\ Levels = <<2>>

\* C24: a version that exists was created with at least one level and with
\* no level 0, isEmpty is false for it, and no version exists after the
\* constructor or the function version was given levels with a 0
C24_AtLeastOneLevelAndNoZero ==
    /\ version.exists
        => /\ Len(version.constructed) >= 1
           /\ \A i \in 1 .. Len(version.constructed) : version.constructed[i] # 0
           /\ ~Version_isEmpty(version.value, version.arrays)
    /\ (version.call.method \in {"Version", "version"}
            /\ \E i \in 1 .. Len(version.constructed) : version.constructed[i] = 0)
        => ~version.exists

\* C25: the levels that getValue returns are those the version was created
\* with, whatever was called and whatever was stored in the array passed
\* to the constructor or in an array that getValue returned
C25_LevelsNeverChange ==
    version.exists => Levels = version.constructed

\* the composites whose visit methods add one to the depth, and those of
\* them that are delimited by newlines
CompositeAlts ==
    {"InlineArray", "NewlineArray", "InlineTable", "NewlineTable",
     "InlineProcedure", "NewlineProcedure"}

NewlineAlts == {"NewlineArray", "NewlineTable", "NewlineProcedure"}

RECURSIVE LiteralsOf(_, _, _), LiteralsOfEach(_, _, _, _)

\* the blocks of text and the binary strings of a parse tree in the order of
\* the document, each with the number of composites and the number of
\* newline-delimited composites that enclose it
LiteralsOf(ctx, composites, delimited) ==
    IF ctx.rule = "TERMINAL"
    THEN IF ctx.alt \in {"TEXT_BLOCK", "BINARY"}
         THEN <<[lexeme |-> ctx.op, composites |-> composites, newlines |-> delimited]>>
         ELSE <<>>
    ELSE LiteralsOfEach(ctx.children,
                        IF ctx.alt \in CompositeAlts THEN composites + 1 ELSE composites,
                        IF ctx.alt \in NewlineAlts THEN delimited + 1 ELSE delimited, 1)

LiteralsOfEach(children, composites, delimited, i) ==
    IF i > Len(children) THEN <<>>
    ELSE LiteralsOf(children[i], composites, delimited)
            \o LiteralsOfEach(children, composites, delimited, i + 1)

RECURSIVE TerminalsOf(_), TerminalsOfEach(_, _)

\* the values of the TEXT and BINARY terminals of a converted tree in the
\* order of the tree
TerminalsOf(tree) ==
    IF tree.type \in {"TEXT", "BINARY"} THEN <<tree.value>>
    ELSE TerminalsOfEach(tree.children, 1)

TerminalsOfEach(children, i) ==
    IF i > Len(children) THEN <<>>
    ELSE TerminalsOf(children[i]) \o TerminalsOfEach(children, i + 1)

\* the characters of a literal without the n spaces that follow each of its
\* newlines, where n spaces do follow the newline
Unindented(value, n) ==
    LET removed == {p \in 1 .. Len(value) :
                        \E q \in 1 .. Len(value) :
                            /\ value[q] = "\n"
                            /\ q < p /\ p <= q + n /\ q + n <= Len(value)
                            /\ \A r \in q + 1 .. q + n : value[r] = " "}
        kept == (1 .. Len(value)) \ removed
    IN [i \in 1 .. Cardinality(kept) |->
            value[CHOOSE p \in kept : Cardinality({q \in kept : q < p}) = i - 1]]

\* C26 as stated: the depth at a block of text or a binary string is the
\* number of newline-delimited composites that enclose it, so the converted
\* literal is its text without four spaces per enclosing newline-delimited
\* composite after each of its newlines
C26_DepthCountsNewlineComposites ==
    (entry # "none" /\ outcome = "returned") =>
        LET literals == LiteralsOf(parser.ctx, 0, 0)
            terminals == TerminalsOf(result)
        IN /\ Len(terminals) = Len(literals)
           /\ \A i \in 1 .. Len(literals) :
                terminals[i] =
                    Unindented(Characters(literals[i].lexeme), 4 * literals[i].newlines)

\* C26, what the visitor does: the depth at a block of text or a binary
\* string is the number of arrays, tables and procedures that enclose it,
\* of the inline form as of the newline-delimited form
C26_DepthCountsEveryComposite ==
    (entry # "none" /\ outcome = "returned") =>
        LET literals == LiteralsOf(parser.ctx, 0, 0)
            terminals == TerminalsOf(result)
        IN /\ Len(terminals) = Len(literals)
           /\ \A i \in 1 .. Len(literals) :
                terminals[i] =
                    Unindented(Characters(literals[i].lexeme), 4 * literals[i].composites)

\* a block of text in an inline array in a newline-delimited array was
\* converted: the depth is 2 and one composite is delimited by newlines
C26_Witness ==
    /\ entry = "parseComponent"
    /\ outcome = "returned"
    /\ source = <<"[", "\n", "[", "\"\n        a\n        \"", "]", "\n", "]">>
    /\ TerminalsOf(result) = <<<<"\"", "\n", "a", "\n", "\"">>>>

====
